---- MODULE Spec2Model ----
(***************************************************************************)
(* A model of the urule memory scanner (src-tauri): the candidate-location *)
(* store of region.rs, the scan engine of scan/mod.rs, the region loops of *)
(* process.rs and the command layer of main.rs.                            *)
(***************************************************************************)
EXTENDS Integers, Sequences, FiniteSets, TLC

VARIABLES
  \* A LocationsStyle value on its own (region.rs as a library)
  ssize,      \* the const generic SIZE of the store
  store,      \* the store (self)
  orig,       \* the store before the last try_compact
  ncompact    \* how many times try_compact has run on it

VARIABLES
  \* The build and the target process (the environment of the scanner)
  checked_build,    \* whether the build panics on integer overflow (dev profile)
  proc,             \* the running target process: its pid and memory regions
  target_mem,       \* the target's memory: region base address -> bytes
  short_reads,      \* the regions a read of which faults part way through
  \* AppState (main.rs); each field is behind its own Mutex
  opened_process,   \* Option<Process>: NoProcess or a pid
  scan_value_type,  \* ValueType
  last_scan,        \* last_scan_K for each kind K: a Vec<Region>
  poisoned,         \* the mutexes a panic has poisoned
  \* Bookkeeping of the commands invoked
  kind,             \* the kind K whose commands (first_scan_K, ...) are invoked
  lastCmd,          \* the command that ran last, its arguments and outcome
  ncmd,             \* how many commands have run
  dirty             \* whether the target wrote its memory since the last scan

VARIABLES
  \* The command invocations in flight (one thread each)
  threads,          \* thread -> its command, its position in it, its locals
  started,          \* how many commands have been invoked on the threads
  ncommit           \* how many times last_scan_K has been assigned or cleared

storeVars == <<ssize, store, orig, ncompact>>

concVars == <<threads, started, ncommit>>

envVars == <<checked_build, proc, target_mem, short_reads>>

appVars == <<opened_process, scan_value_type, last_scan, poisoned>>

cmdVars == <<kind, lastCmd, ncmd, dirty>>

vars == <<ssize, store, orig, ncompact, checked_build, proc, target_mem, short_reads,
          opened_process, scan_value_type, last_scan, poisoned,
          kind, lastCmd, ncmd, dirty, threads, started, ncommit>>

\* ------------------------------------------------------------------------
\* Program constants
\* ------------------------------------------------------------------------

\* usize::BITS on the 64-bit Windows target (region.rs:221).
UsizeBits == 64

\* mem::size_of::<usize>() on the same target (region.rs:222).
UsizeBytes == 8

\* u16::MAX (region.rs:286).
U16Max == 65535

\* The integer kinds of impl_scannable_for_int! (floats are outside the model).
Kinds == {"i8", "u8", "i16", "u16", "i32", "u32", "i64", "u64"}

\* $type_size of each kind.
SizeOf(k) ==
  CASE k \in {"i8", "u8"} -> 1
    [] k \in {"i16", "u16"} -> 2
    [] k \in {"i32", "u32"} -> 4
    [] k \in {"i64", "u64"} -> 8

Signed(k) == k \in {"i8", "i16", "i32", "i64"}

\* ------------------------------------------------------------------------
\* Helpers for the std collections the code uses
\* ------------------------------------------------------------------------

Min(S) == CHOOSE x \in S : \A y \in S : x <= y

Max(S) == CHOOSE x \in S : \A y \in S : x >= y

\* Ascending iteration of a BTreeMap's keys.
SortedSeq(S) ==
  IF S = {} THEN <<>>
  ELSE LET lo == Min(S)
           hi == Max(S)
       IN SelectSeq([i \in 1..(hi - lo + 1) |-> lo + i - 1], LAMBDA a : a \in S)

SeqToSet(s) == {s[i] : i \in 1..Len(s)}

\* Range<usize>::len()
RangeLen(r) == IF r.end > r.start THEN r.end - r.start ELSE 0

\* (start..end).step_by(step), as the sequence it yields
StepBy(start, end, step) ==
  IF end <= start THEN <<>>
  ELSE [i \in 1..(((end - start - 1) \div step) + 1) |-> start + (i - 1) * step]

\* The length of Iterator::zip of two sequences
ZipLen(a, b) == IF Len(a) < Len(b) THEN Len(a) ELSE Len(b)

Location(a, v) == [address |-> a, value |-> v]

\* ------------------------------------------------------------------------
\* LocationsStyle (region.rs)
\* ------------------------------------------------------------------------

KeyValue(m) == [style |-> "KeyValue", map |-> m]

SameValue(locs, v) == [style |-> "SameValue", locations |-> locs, value |-> v]

Range(start, end, vals) ==
  [style |-> "Range", range |-> [start |-> start, end |-> end], values |-> vals]

ExcludedRange(start, end, excl, vals) ==
  [style |-> "ExcludedRange", range |-> [start |-> start, end |-> end],
   excluded |-> excl, values |-> vals]

Offsetted(base, offs) == [style |-> "Offsetted", base |-> base, offsets |-> offs]

Masked(base, mask, vals) ==
  [style |-> "Masked", base |-> base, mask |-> mask, values |-> vals]

\* The indices (0-based) of the set bits of a mask, ascending.
SetIndices(mask) ==
  LET idx == [i \in 1..Len(mask) |-> i - 1]
  IN SelectSeq(idx, LAMBDA i : mask[i + 1])

\* LocationsStyle::len
len(SIZE, l) ==
  CASE l.style = "KeyValue" -> Cardinality(DOMAIN l.map)
    [] l.style = "SameValue" -> Len(l.locations)
    [] l.style = "Range" -> RangeLen(l.range) \div SIZE
    [] l.style = "ExcludedRange" -> RangeLen(l.range) - Len(l.excluded)
    [] l.style = "Offsetted" -> Cardinality(DOMAIN l.offsets)
    [] l.style = "Masked" -> Len(l.values)

\* LocationsStyle::addresses, as the sequence the iterator yields
addresses(SIZE, l) ==
  CASE l.style = "KeyValue" -> SortedSeq(DOMAIN l.map)
    [] l.style = "SameValue" -> l.locations
    [] l.style = "Range" -> StepBy(l.range.start, l.range.end, SIZE)
    [] l.style = "ExcludedRange" ->
         SelectSeq(StepBy(l.range.start, l.range.end, SIZE),
                   LAMBDA a : a \notin SeqToSet(l.excluded))
    [] l.style = "Offsetted" ->
         LET offs == SortedSeq(DOMAIN l.offsets)
         IN [i \in 1..Len(offs) |-> l.base + offs[i]]
    [] l.style = "Masked" ->
         LET idx == SetIndices(l.mask)
         IN [i \in 1..Len(idx) |-> l.base + idx[i] * SIZE]

\* LocationsStyle::into_locations, as the Vec<Location> it collects
into_locations(SIZE, l) ==
  CASE l.style = "KeyValue" ->
         LET ks == SortedSeq(DOMAIN l.map)
         IN [i \in 1..Len(ks) |-> Location(ks[i], l.map[ks[i]])]
    [] l.style = "SameValue" ->
         [i \in 1..Len(l.locations) |-> Location(l.locations[i], l.value)]
    [] l.style = "Range" ->
         [i \in 1..Len(l.values) |->
            Location(l.range.start + (i - 1) * SIZE, l.values[i])]
    [] l.style = "ExcludedRange" ->
         LET kept == SelectSeq(StepBy(l.range.start, l.range.end, SIZE),
                               LAMBDA a : a \notin SeqToSet(l.excluded))
         IN [i \in 1..ZipLen(kept, l.values) |-> Location(kept[i], l.values[i])]
    [] l.style = "Offsetted" ->
         LET offs == SortedSeq(DOMAIN l.offsets)
         IN [i \in 1..Len(offs) |-> Location(l.base + offs[i], l.offsets[offs[i]])]
    [] l.style = "Masked" ->
         LET idx == SetIndices(l.mask)
         IN [i \in 1..ZipLen(idx, l.values) |->
               Location(l.base + idx[i] * SIZE, l.values[i])]

\* The outcome of an operation that may panic (unwrap of None, index out of
\* bounds, arithmetic overflow with overflow checks on).
Panic == [ok |-> FALSE, val |-> 0]

Ok(v) == [ok |-> TRUE, val |-> v]

\* The position (0-based) of the first element of s equal to x, or -1
Position(s, x) ==
  IF x \in SeqToSet(s) THEN Min({i \in 1..Len(s) : s[i] = x}) - 1 ELSE -1

\* Vec indexing values[index], index 0-based
Index(values, index) ==
  IF index >= 0 /\ index < Len(values) THEN Ok(values[index + 1]) ELSE Panic

\* A faulty value_at: the ExcludedRange arm does not discount the excluded
\* addresses below addr, the Masked arm indexes by slot.
value_at_unshifted(SIZE, l, addr) ==
  CASE l.style = "KeyValue" ->
         IF addr \in DOMAIN l.map THEN Ok(l.map[addr]) ELSE Panic
    [] l.style = "SameValue" -> Ok(l.value)
    [] l.style \in {"Range", "ExcludedRange"} ->
         IF addr < l.range.start THEN Panic
         ELSE Index(l.values, (addr - l.range.start) \div SIZE)
    [] l.style = "Offsetted" ->
         IF addr < l.base THEN Panic
         ELSE LET offset == (addr - l.base) % (U16Max + 1)
              IN IF offset \in DOMAIN l.offsets THEN Ok(l.offsets[offset]) ELSE Panic
    [] l.style = "Masked" ->
         IF addr < l.base THEN Panic ELSE Index(l.values, (addr - l.base) \div SIZE)

\* Region::value_at, on the region's locations
value_at(SIZE, l, addr) ==
  CASE l.style = "KeyValue" ->
         IF addr \in DOMAIN l.map THEN Ok(l.map[addr]) ELSE Panic
    [] l.style = "SameValue" -> Ok(l.value)
    [] l.style = "Range" ->
         IF addr < l.range.start THEN Panic
         ELSE Index(l.values, (addr - l.range.start) \div SIZE)
    [] l.style = "ExcludedRange" ->
         IF addr < l.range.start THEN Panic
         ELSE LET index == (addr - l.range.start) \div SIZE
                  smaller_excluded_addresses_count ==
                    Cardinality({i \in 1..Len(l.excluded) : addr > l.excluded[i]})
              IN Index(l.values, index - smaller_excluded_addresses_count)
    [] l.style = "Offsetted" ->
         IF addr < l.base THEN Panic
         ELSE LET offset == (addr - l.base) % (U16Max + 1)
              IN IF offset \in DOMAIN l.offsets THEN Ok(l.offsets[offset]) ELSE Panic
    [] l.style = "Masked" ->
         LET idx == SetIndices(l.mask)
             index == Position([i \in 1..Len(idx) |-> l.base + idx[i] * SIZE], addr)
         IN IF index < 0 THEN Panic ELSE Index(l.values, index)

\* A faulty mask: the cursor over the keys is never advanced.
RECURSIVE MaskBits_stale(_, _, _, _)
MaskBits_stale(slots, keys, i, j) ==
  IF i > Len(slots) THEN <<>>
  ELSE IF j <= Len(keys) /\ slots[i] = keys[j]
       THEN <<TRUE>> \o MaskBits_stale(slots, keys, i + 1, j)
       ELSE <<FALSE>> \o MaskBits_stale(slots, keys, i + 1, j)

\* The mask of try_compact's Masked arm: one flag per stride slot of low..=high,
\* set when the slot's address is the next key not yet consumed.
RECURSIVE MaskBits(_, _, _, _)
MaskBits(slots, keys, i, j) ==
  IF i > Len(slots) THEN <<>>
  ELSE IF j <= Len(keys) /\ slots[i] = keys[j]
       THEN <<TRUE>> \o MaskBits(slots, keys, i + 1, j + 1)
       ELSE <<FALSE>> \o MaskBits(slots, keys, i + 1, j)

\* A faulty try_compact: the ExcludedRange rule is tried before the Masked rule.
try_compact_reordered(SIZE, l) ==
  IF ~(l.style = "KeyValue" /\ Cardinality(DOMAIN l.map) > 1) THEN l
  ELSE
    LET locations == l.map
        n == Cardinality(DOMAIN locations)
        keys == SortedSeq(DOMAIN locations)
        low == Min(DOMAIN locations)
        high == Max(DOMAIN locations)
        addressing_range == high - low
        range_max_addresses == (addressing_range \div SIZE) + 1
        into_values == [i \in 1..n |-> locations[keys[i]]]
    IN
      IF n = range_max_addresses
        THEN Range(low, high + 1, into_values)
      ELSE IF n * 20 >= range_max_addresses * 19
        THEN ExcludedRange(low, high + 1,
                           SelectSeq(StepBy(low, high + 1, SIZE),
                                     LAMBDA a : a \notin DOMAIN locations),
                           into_values)
      ELSE IF range_max_addresses <= UsizeBits
              /\ UsizeBytes + range_max_addresses < n * UsizeBytes
        THEN Masked(low, MaskBits(StepBy(low, high + 1, SIZE), keys, 1, 1), into_values)
      ELSE IF addressing_range <= U16Max
        THEN Offsetted(low, [o \in {k - low : k \in DOMAIN locations} |-> locations[o + low]])
      ELSE KeyValue(locations)

\* A faulty try_compact: a KeyValue of one entry is compacted as well.
try_compact_single(SIZE, l) ==
  IF ~(l.style = "KeyValue" /\ Cardinality(DOMAIN l.map) > 0) THEN l
  ELSE
    LET locations == l.map
        n == Cardinality(DOMAIN locations)
        keys == SortedSeq(DOMAIN locations)
        low == Min(DOMAIN locations)
        high == Max(DOMAIN locations)
        addressing_range == high - low
        range_max_addresses == (addressing_range \div SIZE) + 1
        into_values == [i \in 1..n |-> locations[keys[i]]]
    IN
      IF n = range_max_addresses
        THEN Range(low, high + 1, into_values)
      ELSE IF range_max_addresses <= UsizeBits
              /\ UsizeBytes + range_max_addresses < n * UsizeBytes
        THEN Masked(low, MaskBits(StepBy(low, high + 1, SIZE), keys, 1, 1), into_values)
      \* n as f32 >= range_max_addresses as f32 * 0.95: both casts are exact below
      \* 2^24, and the f32 product rounds to the exact product whenever that is an
      \* integer, so the comparison is the exact one.
      ELSE IF n * 20 >= range_max_addresses * 19
        THEN ExcludedRange(low, high + 1,
                           SelectSeq(StepBy(low, high + 1, SIZE),
                                     LAMBDA a : a \notin DOMAIN locations),
                           into_values)
      ELSE IF addressing_range <= U16Max
        THEN Offsetted(low, [o \in {k - low : k \in DOMAIN locations} |-> locations[o + low]])
      ELSE KeyValue(locations)

\* LocationsStyle::try_compact, as the value self holds afterwards
try_compact(SIZE, l) ==
  IF ~(l.style = "KeyValue" /\ Cardinality(DOMAIN l.map) > 1) THEN l
  ELSE
    LET locations == l.map
        n == Cardinality(DOMAIN locations)
        keys == SortedSeq(DOMAIN locations)
        low == Min(DOMAIN locations)
        high == Max(DOMAIN locations)
        addressing_range == high - low
        range_max_addresses == (addressing_range \div SIZE) + 1
        into_values == [i \in 1..n |-> locations[keys[i]]]
    IN
      IF n = range_max_addresses
        THEN Range(low, high + 1, into_values)
      ELSE IF range_max_addresses <= UsizeBits
              /\ UsizeBytes + range_max_addresses < n * UsizeBytes
        THEN Masked(low, MaskBits(StepBy(low, high + 1, SIZE), keys, 1, 1), into_values)
      \* n as f32 >= range_max_addresses as f32 * 0.95: both casts are exact below
      \* 2^24, and the f32 product rounds to the exact product whenever that is an
      \* integer, so the comparison is the exact one.
      ELSE IF n * 20 >= range_max_addresses * 19
        THEN ExcludedRange(low, high + 1,
                           SelectSeq(StepBy(low, high + 1, SIZE),
                                     LAMBDA a : a \notin DOMAIN locations),
                           into_values)
      ELSE IF addressing_range <= U16Max
        THEN Offsetted(low, [o \in {k - low : k \in DOMAIN locations} |-> locations[o + low]])
      ELSE KeyValue(locations)

\* ------------------------------------------------------------------------
\* Scannable for the integer kinds (scan/scannable.rs)
\* ------------------------------------------------------------------------

\* Byte i (0 = least significant) of the two's complement representation of v
RECURSIVE ByteAt(_, _)
ByteAt(v, i) == IF i = 0 THEN v % 256 ELSE ByteAt(v \div 256, i - 1)

\* Scannable::to_bytes: to_ne_bytes on the little-endian target
to_bytes(k, v) == [i \in 1..SizeOf(k) |-> ByteAt(v, i - 1)]

\* The number the little-endian bytes hold, the top byte read with the kind's sign
RECURSIVE Decode(_, _)
Decode(k, bytes) ==
  IF Len(bytes) = 1
    THEN (IF Signed(k) /\ bytes[1] >= 128 THEN bytes[1] - 256 ELSE bytes[1])
    ELSE bytes[1] + 256 * Decode(k, Tail(bytes))

\* Scannable::from_bytes / from_ne_bytes
from_bytes(k, bytes) == Decode(k, bytes)

\* Scannable::eq for integers: *self == from_ne_bytes(bytes), which holds
\* exactly when the two byte representations are the same.
eq(k, self, bytes) == to_bytes(k, self) = bytes

\* Scannable::cmp for integers
cmp(k, self, bytes) ==
  LET other == from_bytes(k, bytes)
  IN IF self < other THEN "Less" ELSE IF self = other THEN "Equal" ELSE "Greater"

\* Whether d is outside the kind's range. The model's values of the 4- and
\* 8-byte kinds are far from their upper limits and from the signed lower limit.
Overflows(k, d) ==
  CASE k = "i8" -> d < -128 \/ d > 127
    [] k = "u8" -> d < 0 \/ d > 255
    [] k = "i16" -> d < -32768 \/ d > 32767
    [] k = "u16" -> d < 0 \/ d > 65535
    [] k \in {"u32", "u64"} -> d < 0
    [] k \in {"i32", "i64"} -> FALSE

\* Scannable::sub for integers: (*self - other).to_ne_bytes(). The subtraction
\* panics on overflow when the build has overflow checks on (the dev profile)
\* and wraps when it has them off (the release profile).
sub(k, self, bytes, overflow_checks) ==
  LET other == from_bytes(k, bytes)
  IN IF Overflows(k, self - other) /\ overflow_checks
       THEN Panic
       ELSE Ok(to_bytes(k, self - other))

\* ------------------------------------------------------------------------
\* Scan (scan/mod.rs)
\* ------------------------------------------------------------------------

Exact(v) == [typ |-> "Exact", a |-> v, b |-> 0]

Unknown == [typ |-> "Unknown", a |-> 0, b |-> 0]

InRange(lo, hi) == [typ |-> "InRange", a |-> lo, b |-> hi]

Unchanged == [typ |-> "Unchanged", a |-> 0, b |-> 0]

Changed == [typ |-> "Changed", a |-> 0, b |-> 0]

Decreased == [typ |-> "Decreased", a |-> 0, b |-> 0]

Increased == [typ |-> "Increased", a |-> 0, b |-> 0]

DecreasedBy(n) == [typ |-> "DecreasedBy", a |-> n, b |-> 0]

IncreasedBy(n) == [typ |-> "IncreasedBy", a |-> n, b |-> 0]

\* MEMORY_BASIC_INFORMATION, the fields the code reads
Info(base, size, protect) ==
  [BaseAddress |-> base, RegionSize |-> size, Protect |-> protect]

Region(info, locations) == [info |-> info, locations |-> locations]

\* A faulty stride: every window is visited, the step_by(SIZE) is lost.
WindowOffsets_unstrided(SIZE, memory) == StepBy(0, Len(memory) - SIZE + 1, 1)

\* The offsets of memory.windows(SIZE).enumerate().step_by(SIZE)
WindowOffsets(SIZE, memory) == StepBy(0, Len(memory) - SIZE + 1, SIZE)

\* The window at an offset / the slice memory[base..base + SIZE]
Window(memory, offset, SIZE) == SubSeq(memory, offset + 1, offset + SIZE)

\* A faulty run: the upper bound of InRange is taken as exclusive.
run_half_open(k, scan, info, memory) ==
  LET SIZE == SizeOf(k)
      base == info.BaseAddress
      offs == WindowOffsets(SIZE, memory)
  IN CASE scan.typ = "Exact" ->
            LET hits == SelectSeq(offs, LAMBDA o : eq(k, scan.a, Window(memory, o, SIZE)))
            IN Region(info, SameValue([i \in 1..Len(hits) |-> base + hits[i]], scan.a))
       [] scan.typ = "InRange" ->
            LET hits == {o \in SeqToSet(offs) :
                           /\ cmp(k, scan.a, Window(memory, o, SIZE)) # "Greater"
                           /\ cmp(k, scan.b, Window(memory, o, SIZE)) = "Greater"}
                kv == KeyValue([a \in {base + o : o \in hits} |->
                                  from_bytes(k, Window(memory, a - base, SIZE))])
            IN Region(info, try_compact(SIZE, kv))
       [] OTHER ->
            Region(info, Range(base, base + info.RegionSize,
                               [i \in 1..Len(offs) |->
                                  from_bytes(k, Window(memory, offs[i], SIZE))]))

\* Scan::run
run(k, scan, info, memory) ==
  LET SIZE == SizeOf(k)
      base == info.BaseAddress
      offs == WindowOffsets(SIZE, memory)
  IN CASE scan.typ = "Exact" ->
            LET hits == SelectSeq(offs, LAMBDA o : eq(k, scan.a, Window(memory, o, SIZE)))
            IN Region(info, SameValue([i \in 1..Len(hits) |-> base + hits[i]], scan.a))
       [] scan.typ = "InRange" ->
            LET hits == {o \in SeqToSet(offs) :
                           /\ cmp(k, scan.a, Window(memory, o, SIZE)) # "Greater"
                           /\ cmp(k, scan.b, Window(memory, o, SIZE)) # "Less"}
                kv == KeyValue([a \in {base + o : o \in hits} |->
                                  from_bytes(k, Window(memory, a - base, SIZE))])
            IN Region(info, try_compact(SIZE, kv))
       [] OTHER ->
            Region(info, Range(base, base + info.RegionSize,
                               [i \in 1..Len(offs) |->
                                  from_bytes(k, Window(memory, offs[i], SIZE))]))

\* A faulty acceptable: Decreased also admits a value that did not change.
acceptable_not_increased(k, scan, old, new, overflow_checks) ==
  CASE scan.typ = "Exact" -> Ok(eq(k, scan.a, new))
    [] scan.typ = "Unknown" -> Ok(TRUE)
    [] scan.typ = "InRange" ->
         Ok(cmp(k, scan.a, new) # "Greater" /\ cmp(k, scan.b, new) # "Less")
    [] scan.typ = "Unchanged" -> Ok(eq(k, old, new))
    [] scan.typ = "Changed" -> Ok(~eq(k, old, new))
    [] scan.typ = "Decreased" -> Ok(cmp(k, old, new) # "Less")
    [] scan.typ = "Increased" -> Ok(cmp(k, old, new) = "Less")
    [] scan.typ = "DecreasedBy" ->
         LET d == sub(k, old, new, overflow_checks)
         IN IF d.ok THEN Ok(eq(k, scan.a, d.val)) ELSE Panic
    [] scan.typ = "IncreasedBy" ->
         LET d == sub(k, from_bytes(k, new), to_bytes(k, old), overflow_checks)
         IN IF d.ok THEN Ok(eq(k, scan.a, d.val)) ELSE Panic

\* Scan::acceptable: Ok(TRUE/FALSE), or Panic when the subtraction overflows
acceptable(k, scan, old, new, overflow_checks) ==
  CASE scan.typ = "Exact" -> Ok(eq(k, scan.a, new))
    [] scan.typ = "Unknown" -> Ok(TRUE)
    [] scan.typ = "InRange" ->
         Ok(cmp(k, scan.a, new) # "Greater" /\ cmp(k, scan.b, new) # "Less")
    [] scan.typ = "Unchanged" -> Ok(eq(k, old, new))
    [] scan.typ = "Changed" -> Ok(~eq(k, old, new))
    [] scan.typ = "Decreased" -> Ok(cmp(k, old, new) = "Greater")
    [] scan.typ = "Increased" -> Ok(cmp(k, old, new) = "Less")
    [] scan.typ = "DecreasedBy" ->
         LET d == sub(k, old, new, overflow_checks)
         IN IF d.ok THEN Ok(eq(k, scan.a, d.val)) ELSE Panic
    [] scan.typ = "IncreasedBy" ->
         LET d == sub(k, from_bytes(k, new), to_bytes(k, old), overflow_checks)
         IN IF d.ok THEN Ok(eq(k, scan.a, d.val)) ELSE Panic

\* Whether the slice memory[base..base + SIZE] of rerun is inside the buffer
SliceOk(memory, base, SIZE) == base >= 0 /\ base + SIZE <= Len(memory)

\* A faulty rerun: the region is scanned afresh, the candidates are forgotten.
rerun_fresh(k, scan, region, memory, overflow_checks) ==
  Ok(run(k, scan, region.info, memory))

\* A faulty rerun: Exact goes through the generic arm, which compacts.
rerun_generic(k, scan, region, memory, overflow_checks) ==
  LET SIZE == SizeOf(k)
      addrs == addresses(SIZE, region.locations)
      new(addr) == Window(memory, addr - region.info.BaseAddress, SIZE)
  IN IF scan.typ = "Unknown" THEN Ok(region)
     ELSE IF \E i \in 1..Len(addrs) :
               \/ ~value_at(SIZE, region.locations, addrs[i]).ok
               \/ ~SliceOk(memory, addrs[i] - region.info.BaseAddress, SIZE)
               \/ ~acceptable(k, scan, value_at(SIZE, region.locations, addrs[i]).val,
                               new(addrs[i]), overflow_checks).ok
       THEN Panic
     ELSE LET kept == {a \in SeqToSet(addrs) :
                         acceptable(k, scan, value_at(SIZE, region.locations, a).val,
                                    new(a), overflow_checks).val}
              kv == KeyValue([a \in kept |-> from_bytes(k, new(a))])
          IN Ok(Region(region.info, try_compact(SIZE, kv)))

\* Scan::rerun: Ok(region), or Panic when a value_at, a slice or a subtraction
\* panics. The candidates are visited in the order of addresses().
rerun(k, scan, region, memory, overflow_checks) ==
  LET SIZE == SizeOf(k)
      addrs == addresses(SIZE, region.locations)
      off(addr) == addr - region.info.BaseAddress
      new(addr) == Window(memory, off(addr), SIZE)
  IN CASE scan.typ = "Unknown" -> Ok(region)
       [] scan.typ = "Exact" ->
            IF \E i \in 1..Len(addrs) : ~SliceOk(memory, off(addrs[i]), SIZE)
              THEN Panic
              ELSE Ok(Region(region.info,
                             SameValue(SelectSeq(addrs, LAMBDA a : eq(k, scan.a, new(a))),
                                       scan.a)))
       [] OTHER ->
            IF \E i \in 1..Len(addrs) :
                 \/ ~value_at(SIZE, region.locations, addrs[i]).ok
                 \/ ~SliceOk(memory, off(addrs[i]), SIZE)
                 \/ ~acceptable(k, scan, value_at(SIZE, region.locations, addrs[i]).val,
                                 new(addrs[i]), overflow_checks).ok
              THEN Panic
              ELSE LET kept == {a \in SeqToSet(addrs) :
                                  acceptable(k, scan, value_at(SIZE, region.locations, a).val,
                                             new(a), overflow_checks).val}
                       kv == KeyValue([a \in kept |-> from_bytes(k, new(a))])
                   IN Ok(Region(region.info, try_compact(SIZE, kv)))

\* ------------------------------------------------------------------------
\* ScanInfo and IntoScan (scan/scan_meta.rs)
\* ------------------------------------------------------------------------

\* A string is modelled as the sequence of its characters.
DigitChars == <<"0", "1", "2", "3", "4", "5", "6", "7", "8", "9">>

\* The number a string of decimal digits denotes, or -1 if a character is no digit
RECURSIVE DigitsValue(_, _)
DigitsValue(str, acc) ==
  IF str = <<>> THEN acc
  ELSE IF Position(DigitChars, Head(str)) < 0 THEN -1
       ELSE DigitsValue(Tail(str), acc * 10 + Position(DigitChars, Head(str)))

\* str::parse::<$type>() followed by unwrap(): Ok(number), or Panic on an
\* empty string, a lone sign, a character that is no digit (a '-' for an
\* unsigned kind included) or a number outside the kind's range.
parse(k, str) ==
  IF str = <<>> \/ str = <<"+">> \/ str = <<"-">> THEN Panic
  ELSE LET negative == Head(str) = "-" /\ Signed(k)
           digits == IF Head(str) = "+" \/ negative THEN Tail(str) ELSE str
           magnitude == DigitsValue(digits, 0)
           n == IF negative THEN -magnitude ELSE magnitude
       IN IF magnitude < 0 \/ Overflows(k, n) THEN Panic ELSE Ok(n)

NoValue == [shape |-> "None", start |-> <<>>, end |-> <<>>]

ExactValue(str) == [shape |-> "Exact", start |-> str, end |-> <<>>]

RangeValue(start, end) == [shape |-> "Range", start |-> start, end |-> end]

ScanInfo(typ, value) == [typ |-> typ, value |-> value]

\* The outcomes of to_scan(..): Some(scan), None, or a panic inside it
SomeScan(scan) == [tag |-> "Some", scan |-> scan]

NoScan == [tag |-> "None", scan |-> Unknown]

ScanPanic == [tag |-> "Panic", scan |-> Unknown]

\* IntoScan::to_scan of the impl for kind k
to_scan(k, scan_info, value_type) ==
  LET typ == scan_info.typ
      value == scan_info.value
  IN IF value_type # k THEN NoScan
     ELSE IF typ = "Unknown" THEN SomeScan(Unknown)
     ELSE IF typ = "Unchanged" THEN SomeScan(Unchanged)
     ELSE IF typ = "Changed" THEN SomeScan(Changed)
     ELSE IF typ = "Decreased" THEN SomeScan(Decreased)
     ELSE IF typ = "Increased" THEN SomeScan(Increased)
     ELSE IF value.shape = "Exact" /\ typ \in {"Exact", "DecreasedBy", "IncreasedBy"}
       THEN LET n == parse(k, value.start)
            IN IF ~n.ok THEN ScanPanic
               ELSE SomeScan([typ |-> typ, a |-> n.val, b |-> 0])
     ELSE IF value.shape = "Range" /\ typ = "InRange"
       THEN LET lo == parse(k, value.start)
                hi == parse(k, value.end)
            IN IF ~lo.ok \/ ~hi.ok THEN ScanPanic
               ELSE SomeScan(InRange(lo.val, hi.val))
     ELSE NoScan

\* ------------------------------------------------------------------------
\* Process (process.rs)
\* ------------------------------------------------------------------------

\* ReadProcessMemory on a region: the number of bytes it copies, all n of
\* them unless the read faults part way through (ERROR_PARTIAL_COPY)
BytesRead(info) ==
  IF info.BaseAddress \in short_reads THEN info.RegionSize \div 2 ELSE info.RegionSize

\* Process::read_memory: Err when ReadProcessMemory returns FALSE, which it
\* does for the regions in `failed` (access denied, region unmapped) and
\* whenever it copies fewer than n bytes; else Ok of the `read` bytes copied.
ReadFails_unless_copied(info, failed) ==
  info.BaseAddress \in failed /\ info.BaseAddress \notin short_reads

ReadFails(info, failed) == info.BaseAddress \in failed \cup short_reads

read_memory(mem, info) == SubSeq(mem[info.BaseAddress], 1, BytesRead(info))

\* Process::write_memory: WriteProcessMemory of the SIZE bytes of value at
\* addr, which fails unless they lie inside a region of the target
write_memory(k, mem, regions, addr, value) ==
  LET inside == {i \in 1..Len(regions) :
                   /\ regions[i].BaseAddress <= addr
                   /\ addr + SizeOf(k) <= regions[i].BaseAddress + regions[i].RegionSize}
  IN IF inside = {} THEN [ok |-> FALSE, mem |-> mem]
     ELSE LET b == regions[CHOOSE i \in inside : TRUE].BaseAddress
              off == addr - b
              bytes == to_bytes(k, value)
          IN [ok |-> TRUE,
              mem |-> [mem EXCEPT ![b] =
                         [j \in 1..Len(@) |->
                            IF off < j /\ j <= off + SizeOf(k) THEN bytes[j - off] ELSE @[j]]]]

\* Process::scan_regions
scan_regions_unfiltered(k, regions, scan, mem, failed) ==
  LET readable == SelectSeq(regions, LAMBDA r : ~ReadFails(r, failed))
  IN [i \in 1..Len(readable) |->
        run(k, scan, readable[i], read_memory(mem, readable[i]))]

scan_regions_all_or_nothing(k, regions, scan, mem, failed) ==
  IF \E i \in 1..Len(regions) : ReadFails(regions[i], failed) THEN <<>>
  ELSE SelectSeq([i \in 1..Len(regions) |->
                    run(k, scan, regions[i], read_memory(mem, regions[i]))],
                 LAMBDA r : len(SizeOf(k), r.locations) > 0)

scan_regions(k, regions, scan, mem, failed) ==
  LET readable == SelectSeq(regions, LAMBDA r : ~ReadFails(r, failed))
      scanned == [i \in 1..Len(readable) |->
                    run(k, scan, readable[i], read_memory(mem, readable[i]))]
  IN SelectSeq(scanned, LAMBDA r : len(SizeOf(k), r.locations) > 0)

\* Process::rescan_regions: Ok(regions), or Panic when a rerun panics
rescan_regions(k, regions, scan, mem, failed, checks) ==
  LET readable == SelectSeq(regions, LAMBDA r : ~ReadFails(r.info, failed))
      scanned == [i \in 1..Len(readable) |->
                    rerun(k, scan, readable[i], read_memory(mem, readable[i].info), checks)]
  IN IF \E i \in 1..Len(scanned) : ~scanned[i].ok THEN Panic
     ELSE Ok(SelectSeq([i \in 1..Len(scanned) |-> scanned[i].val],
                       LAMBDA r : len(SizeOf(k), r.locations) > 0))

\* ------------------------------------------------------------------------
\* The target process (the adapter's side of process.rs)
\* ------------------------------------------------------------------------

\* winnt page protections
PAGE_READONLY == 2

PAGE_READWRITE == 4

PAGE_WRITECOPY == 8

PAGE_EXECUTE_READWRITE == 64

PAGE_EXECUTE_WRITECOPY == 128

PAGE_GUARD == 256

\* Bitwise and of two naturals
RECURSIVE BitAnd(_, _)
BitAnd(x, y) ==
  IF x = 0 \/ y = 0 THEN 0
  ELSE (x % 2) * (y % 2) + 2 * BitAnd(x \div 2, y \div 2)

\* The MASK of first_scan_K
MASK ==
  PAGE_EXECUTE_READWRITE + PAGE_EXECUTE_WRITECOPY + PAGE_READWRITE + PAGE_WRITECOPY

\* The candidate target processes: what Process::memory_regions enumerates.
\* SmallProc has a read-only, a writable and a guarded writable region; BigProc
\* one region of more than UsizeBits elements of the 1- and 2-byte kinds. The
\* region sizes are multiples of every SIZE the sessions use, as multiples of
\* the page size are.
SmallProc ==
  [pid |-> 1,
   regions |-> <<Info(4096, 8, PAGE_READONLY),
                 Info(8192, 12, PAGE_READWRITE),
                 Info(16384, 8, PAGE_READWRITE + PAGE_GUARD)>>]

BigBytes == 132

BigProc == [pid |-> 2, regions |-> <<Info(65536, BigBytes, PAGE_EXECUTE_READWRITE)>>]

Procs == {SmallProc, BigProc}

\* Scan::run and Scan::rerun take a buffer of any length: a process with one
\* region of nbytes bytes, for the runs over every region size.
MaxRegionBytes == 6

SizedProc(nbytes) == [pid |-> 3, regions |-> <<Info(32768, nbytes, PAGE_WRITECOPY)>>]

SizedProcs == {SizedProc(nbytes) : nbytes \in 1..MaxRegionBytes}

\* A pid Process::open fails on
DeadPid == 9

\* nbytes of memory whose element i (of kind k) holds pat[i]; the bytes after
\* the last whole element are zero.
MemOf(k, nbytes, pat) ==
  [o \in 1..nbytes |->
     IF (o - 1) \div SizeOf(k) < nbytes \div SizeOf(k)
       THEN ByteAt(pat[(o - 1) \div SizeOf(k)], (o - 1) % SizeOf(k))
       ELSE 0]

\* Element patterns
AllOf(v) == [i \in 0..(BigBytes - 1) |-> v]

AllBut(v, holes, w) == [i \in 0..(BigBytes - 1) |-> IF i \in holes THEN w ELSE v]

Cycle3 == [i \in 0..(BigBytes - 1) |-> i % 3]

\* The memory contents the target goes through
Snapshots(k, p) ==
  CASE p = SmallProc ->
         {[a \in {4096, 8192, 16384} |->
             CASE a = 4096 -> MemOf(k, 8, AllOf(1))
               [] a = 8192 -> MemOf(k, 12, pats[1])
               [] a = 16384 -> MemOf(k, 8, pats[2])] :
          pats \in {<<AllOf(1), AllOf(1)>>,
                    <<AllBut(0, {0, 10}, 1), AllOf(0)>>,
                    <<Cycle3, AllOf(2)>>}}
    [] p = BigProc ->
         {[a \in {65536} |-> MemOf(k, BigBytes, pat)] :
          pat \in {AllOf(1), AllBut(1, {1, 3}, 0), AllBut(0, {0, 65}, 1)}}
    [] OTHER ->
         {[a \in {32768} |-> MemOf(k, p.regions[1].RegionSize, pat)] :
          pat \in {AllOf(1), AllBut(1, {0}, 0)}}

\* ------------------------------------------------------------------------
\* AppState and the commands (main.rs)
\* ------------------------------------------------------------------------

NoProcess == 0

\* The order in which impl_scan! lists the kinds (the float kinds, last in the
\* list, are outside the model)
KindOrder == <<"i8", "u8", "i16", "u16", "i32", "u32", "i64", "u64">>

\* The commands run until this many have been invoked.
MaxCmds == 2

\* The kinds the sessions with each process are run with
SessionKinds(p) ==
  CASE p = SmallProc -> {"u8", "i32"}
    [] p = BigProc -> {"i16"}
    [] OTHER -> {"i16", "i32"}

\* The scan_info arguments the UI sends
ScanInfos ==
  {ScanInfo(t, NoValue) :
     t \in {"Unknown", "Unchanged", "Changed", "Decreased", "Increased", "Exact"}}
    \cup {ScanInfo("Exact", ExactValue(str)) : str \in {<<"1">>, <<"0">>, <<"x">>}}
    \cup {ScanInfo("InRange", RangeValue(<<"1">>, <<"2">>)),
          ScanInfo("DecreasedBy", ExactValue(<<"1">>)),
          ScanInfo("IncreasedBy", ExactValue(<<"1">>))}

\* A value_type other than k
OtherKind(k) == IF k = "i32" THEN "u8" ELSE "i32"

\* The record of a command: what it was, how it ended, which reads failed,
\* whether the target wrote its memory since the last completed scan, and the
\* record of the command before it; `built` is what to_scan gave ("-" when
\* the command did not get to it) and `ret` what the command returned to the
\* UI (NoRet for the commands that return nothing).
NoRet == [tag |-> "unit"]

Cmd(op, scan, outcome, failed, stale, before) ==
  [op |-> op, scan |-> scan, outcome |-> outcome, failed |-> failed,
   stale |-> stale, built |-> "-", ret |-> NoRet, before |-> before]

NoCmd ==
  [op |-> "none", scan |-> Unknown, outcome |-> "ok", failed |-> {}, stale |-> FALSE,
   built |-> "-", ret |-> NoRet]

\* A command's record without the record of the command before it
Last(c) ==
  [op |-> c.op, scan |-> c.scan, outcome |-> c.outcome, failed |-> c.failed,
   stale |-> c.stale, built |-> c.built, ret |-> c.ret]

\* The threads that invoke commands
Threads == {1, 2}

\* A thread that is in no command
Idle ==
  [pc |-> "idle", pid |-> 0, value_type |-> "i32", scan |-> Unknown,
   result |-> <<>>, held |-> {}, readAt |-> 0]

\* The commands run one at a time, to completion
NoThreads ==
  /\ threads = [t \in Threads |-> Idle]
  /\ started = 0
  /\ ncommit = 0

\* AppState::new
AppInit ==
  /\ opened_process = NoProcess
  /\ scan_value_type = "i32"
  /\ last_scan = [k \in Kinds |-> <<>>]
  /\ poisoned = {}

StoreIdle ==
  /\ ssize = 1
  /\ store = KeyValue(<<>>)
  /\ orig = KeyValue(<<>>)
  /\ ncompact = 0

Init ==
  /\ StoreIdle
  /\ checked_build \in BOOLEAN
  /\ proc \in Procs
  /\ kind \in SessionKinds(proc)
  /\ target_mem \in Snapshots(kind, proc)
  /\ short_reads = {}
  /\ AppInit
  /\ lastCmd = Cmd("none", Unknown, "ok", {}, FALSE, NoCmd)
  /\ ncmd = 0
  /\ dirty = FALSE
  /\ NoThreads

\* The reads that fail during one command: none, or those of one region
Fails(bases) == {{}} \cup {{b} : b \in bases}

\* The base addresses of a sequence of region infos / of scanned regions
InfoBases(infos) == {infos[i].BaseAddress : i \in 1..Len(infos)}

RegionBases(regions) == {regions[i].info.BaseAddress : i \in 1..Len(regions)}

\* The regions first_scan_K keeps: those with (Protect & MASK) != 0
Scannable(regions) == SelectSeq(regions, LAMBDA p : BitAnd(p.Protect, MASK) # 0)

\* get_last_scan_K(limit, offset) on a clone of the vector: the sum of the
\* regions' len() and the page of locations
RECURSIVE TotalLen(_, _)
TotalLen(k, regions) ==
  IF regions = <<>> THEN 0
  ELSE len(SizeOf(k), Head(regions).locations) + TotalLen(k, Tail(regions))

RECURSIVE FlatLocations(_, _)
FlatLocations(k, regions) ==
  IF regions = <<>> THEN <<>>
  ELSE into_locations(SizeOf(k), Head(regions).locations) \o FlatLocations(k, Tail(regions))

get_last_scan(k, regions, limit, offset) ==
  LET all == FlatLocations(k, regions)
  IN [tag |-> "page",
      k |-> k, limit |-> limit, offset |-> offset,
      regions |-> regions,
      total |-> TotalLen(k, regions),
      locations |-> SubSeq(all, offset + 1, Min({Len(all), offset + limit}))]

\* first_scan_K(pid, value_type, scan_info); the reads of the regions in
\* `failed` fail. Process::open(pid).unwrap() and to_scan(..).unwrap() panic
\* before any lock is taken; each of the three commits panics if its mutex
\* is poisoned, after the commits before it.
FirstScan(K, pid, value_type, scan_info, failed) ==
  LET opened == pid = proc.pid
      sc == to_scan(K, scan_info, value_type)
      regions == Scannable(proc.regions)
      scanning == opened /\ sc.tag = "Some"
      c1 == scanning /\ "opened_process" \notin poisoned
      c2 == c1 /\ "scan_value_type" \notin poisoned
      c3 == c2 /\ K \notin poisoned
  IN /\ ncmd < MaxCmds
     /\ IF scanning
          THEN failed \subseteq InfoBases(regions)
          ELSE failed = {}
     /\ opened_process' = IF c1 THEN pid ELSE opened_process
     /\ scan_value_type' = IF c2 THEN value_type ELSE scan_value_type
     /\ last_scan' =
          IF c3
            THEN [last_scan EXCEPT ![K] = scan_regions(K, regions, sc.scan, target_mem, failed)]
            ELSE last_scan
     /\ lastCmd' = [Cmd("first_scan", IF scanning THEN sc.scan ELSE Unknown,
                        IF c3 THEN "ok" ELSE "panic", failed, dirty, Last(lastCmd))
                       EXCEPT !.built = IF opened THEN sc.tag ELSE "-"]
     /\ ncmd' = ncmd + 1
     /\ dirty' = (IF c3 THEN FALSE ELSE dirty)
     /\ UNCHANGED <<poisoned, kind, storeVars, envVars, concVars>>

\* next_scan_K(scan_info); the reads of the regions in `failed` fail. A panic
\* poisons the mutexes whose guards are alive at that point: scan_value_type's
\* during to_scan(..).unwrap(), opened_process's from as_ref().unwrap() on, and
\* last_scan_K's as well during rescan_regions.
NextScan(K, scan_info, failed) ==
  LET typed == "scan_value_type" \notin poisoned
      sc == to_scan(K, scan_info, scan_value_type)
      s1 == typed /\ sc.tag = "Some"
      s2 == s1 /\ "opened_process" \notin poisoned
      s3 == s2 /\ opened_process # NoProcess
      s4 == s3 /\ K \notin poisoned
      res == rescan_regions(K, last_scan[K], sc.scan, target_mem, failed, checked_build)
      s5 == s4 /\ res.ok
  IN /\ ncmd < MaxCmds
     /\ IF s4
          THEN failed \subseteq RegionBases(last_scan[K])
          ELSE failed = {}
     /\ poisoned' = poisoned
                      \cup (IF typed /\ ~s1 THEN {"scan_value_type"} ELSE {})
                      \cup (IF s2 /\ ~s5 THEN {"opened_process"} ELSE {})
                      \cup (IF s4 /\ ~s5 THEN {K} ELSE {})
     /\ last_scan' = IF s5 THEN [last_scan EXCEPT ![K] = res.val] ELSE last_scan
     /\ lastCmd' = [Cmd("next_scan", IF s1 THEN sc.scan ELSE Unknown,
                        IF s5 THEN "ok" ELSE "panic", failed, dirty, Last(lastCmd))
                       EXCEPT !.built = IF typed THEN sc.tag ELSE "-"]
     /\ ncmd' = ncmd + 1
     /\ dirty' = (IF s5 THEN FALSE ELSE dirty)
     /\ UNCHANGED <<opened_process, scan_value_type, kind, storeVars, envVars, concVars>>

\* clear_last_scan(): clears last_scan_K kind by kind, and panics at the first
\* poisoned one.
ClearLastScan ==
  LET reached(i) == \A j \in 1..i : KindOrder[j] \notin poisoned
      done == reached(Len(KindOrder))
  IN /\ ncmd < MaxCmds
     /\ last_scan' = [k \in Kinds |->
                        IF reached(Position(KindOrder, k) + 1) THEN <<>> ELSE last_scan[k]]
     /\ lastCmd' = Cmd("clear_last_scan", Unknown, IF done THEN "ok" ELSE "panic", {},
                       dirty, Last(lastCmd))
     /\ ncmd' = ncmd + 1
     /\ UNCHANGED <<opened_process, scan_value_type, poisoned, kind, dirty,
                    storeVars, envVars, concVars>>

\* The target process writes its own memory between two commands.
TargetWrites ==
  /\ 0 < ncmd /\ ncmd < MaxCmds
  /\ target_mem' \in Snapshots(kind, proc) \ {target_mem}
  /\ dirty' = TRUE
  /\ UNCHANGED <<checked_build, proc, short_reads, appVars, kind, lastCmd, ncmd,
                 storeVars, concVars>>

\* The arguments of first_scan_K: a scan of the live process, a dead pid, a
\* value_type that is not K
FirstScanArgs(K) ==
  {<<proc.pid, K, si, failed>> : si \in ScanInfos, failed \in Fails(InfoBases(Scannable(proc.regions)))}
    \cup {<<DeadPid, K, ScanInfo("Unknown", NoValue), {}>>,
          <<proc.pid, OtherKind(K), ScanInfo("Unknown", NoValue), {}>>}

Next ==
  \/ \E arg \in FirstScanArgs(kind) : FirstScan(kind, arg[1], arg[2], arg[3], arg[4])
  \/ \E si \in ScanInfos, failed \in Fails(RegionBases(last_scan[kind])) : NextScan(kind, si, failed)
  \/ ClearLastScan
  \/ TargetWrites

Spec == Init /\ [][Next]_vars

\* The same commands over one region of every size
InitAnySize ==
  /\ StoreIdle
  /\ checked_build \in BOOLEAN
  /\ proc \in SizedProcs
  /\ kind \in SessionKinds(proc)
  /\ target_mem \in Snapshots(kind, proc)
  /\ short_reads = {}
  /\ AppInit
  /\ lastCmd = Cmd("none", Unknown, "ok", {}, FALSE, NoCmd)
  /\ ncmd = 0
  /\ dirty = FALSE
  /\ NoThreads

SpecAnySize == InitAnySize /\ [][Next]_vars

\* Sessions that mix the commands of two kinds, over a target one of whose
\* regions may fault part way through a read
MixedKinds == {"u8", "i32"}

MixedScanInfos ==
  {ScanInfo("Unknown", NoValue), ScanInfo("Unchanged", NoValue),
   ScanInfo("Exact", ExactValue(<<"1">>)), ScanInfo("Exact", NoValue),
   ScanInfo("InRange", RangeValue(<<"1">>, <<"2">>))}

\* The (limit, offset) pages the UI asks for
Pages == {<<2, 0>>, <<2, 1>>, <<64, 0>>}

\* get_last_scan_K(limit, offset), run to completion: lock().unwrap() panics
\* when the mutex of last_scan_K is poisoned.
GetLastScanCmd(K, limit, offset) ==
  /\ ncmd < MaxCmds
  /\ lastCmd' =
       IF K \in poisoned
         THEN Cmd("get_last_scan", Unknown, "panic", {}, dirty, Last(lastCmd))
         ELSE [Cmd("get_last_scan", Unknown, "ok", {}, dirty, Last(lastCmd))
                 EXCEPT !.ret = get_last_scan(K, last_scan[K], limit, offset)]
  /\ ncmd' = ncmd + 1
  /\ UNCHANGED <<appVars, kind, dirty, storeVars, envVars, concVars>>

InitMixed ==
  /\ StoreIdle
  /\ checked_build \in BOOLEAN
  /\ proc = SmallProc
  /\ kind = "i32"
  /\ target_mem \in Snapshots(kind, proc)
  /\ short_reads = {}
  /\ AppInit
  /\ lastCmd = Cmd("none", Unknown, "ok", {}, FALSE, NoCmd)
  /\ ncmd = 0
  /\ dirty = FALSE
  /\ NoThreads

\* Between two commands a region of the target becomes partly unreadable
\* (the target frees or protects some of its pages).
TargetUnmaps ==
  /\ 0 < ncmd /\ ncmd < MaxCmds
  /\ short_reads = {}
  /\ short_reads' = {8192}
  /\ UNCHANGED <<checked_build, proc, target_mem, appVars, cmdVars, storeVars, concVars>>

NextMixed ==
  \/ \E K \in MixedKinds, si \in MixedScanInfos :
       \E failed \in Fails(InfoBases(Scannable(proc.regions))) :
         FirstScan(K, proc.pid, K, si, failed)
  \/ \E K \in MixedKinds, si \in MixedScanInfos :
       \E failed \in Fails(RegionBases(last_scan[K])) :
         NextScan(K, si, failed)
  \/ \E K \in MixedKinds, page \in Pages : GetLastScanCmd(K, page[1], page[2])
  \/ ClearLastScan
  \/ TargetWrites
  \/ TargetUnmaps

SpecMixed == InitMixed /\ [][NextMixed]_vars

\* ------------------------------------------------------------------------
\* The commands invoked from several threads (main.rs, statement by statement)
\* ------------------------------------------------------------------------
\* AppState is shared through tauri::State and every field has its own Mutex:
\* here each invocation runs on a thread of its own, as the dispatch of
\* commands off the main thread makes them. A step is what a command does
\* between two points where it takes or gives back a Mutex.

\* The commands invoked on the threads until this many have been invoked.
MaxStarted == 3

\* The size of the one region of the target in these runs
ConcBytes == 4

ConcScanInfos ==
  {ScanInfo("Unchanged", NoValue), ScanInfo("Exact", ExactValue(<<"1">>)),
   ScanInfo("Exact", NoValue)}

\* No other thread holds the guard of mutex m
Free(m, t) == \A u \in Threads \ {t} : m \notin threads[u].held

ConcInit ==
  /\ StoreIdle
  /\ checked_build \in BOOLEAN
  /\ proc = SizedProc(ConcBytes)
  /\ kind = "i16"
  /\ target_mem \in Snapshots(kind, proc)
  /\ short_reads = {}
  /\ AppInit
  /\ lastCmd = Cmd("none", Unknown, "ok", {}, FALSE, NoCmd)
  /\ ncmd = 0
  /\ dirty = FALSE
  /\ NoThreads

\* `*state.last_scan_K.lock().unwrap() = last_scan`: the vector is replaced
Assign_extend(old, new) == old \o new

Assign(old, new) == new

\* first_scan_K up to its first commit: Process::open(pid).unwrap(), the
\* region filter, to_scan(..).unwrap() and scan_regions, with no lock taken.
StartFirstScan(t, pid, value_type, scan_info) ==
  LET sc == to_scan(kind, scan_info, value_type)
      scanning == pid = proc.pid /\ sc.tag = "Some"
  IN /\ threads[t].pc = "idle"
     /\ started < MaxStarted
     /\ started' = started + 1
     /\ threads' =
          [threads EXCEPT ![t] =
             IF scanning
               THEN [Idle EXCEPT !.pc = "first:process", !.pid = pid,
                                 !.value_type = value_type,
                                 !.result = scan_regions(kind, Scannable(proc.regions),
                                                         sc.scan, target_mem, {})]
               ELSE Idle]
     /\ UNCHANGED <<appVars, ncommit, storeVars, envVars, cmdVars>>

\* The mutex the statement a thread is at locks next, in the order the
\* statement evaluates its lock() calls: next_scan_K's `let last_scan = ...`
\* locks opened_process (the receiver) and then last_scan_K (the argument).
Wants_reversed(t) ==
  CASE threads[t].pc \in {"first:process", "next:vector", "view:process", "write:process"} ->
         "opened_process"
    [] threads[t].pc = "first:type" -> "scan_value_type"
    [] threads[t].pc \in {"first:scan", "next:process", "next:commit", "get:vector"} -> kind
    [] OTHER -> "none"

Wants(t) ==
  CASE threads[t].pc \in {"first:process", "next:process", "view:process", "write:process"} ->
         "opened_process"
    [] threads[t].pc = "first:type" -> "scan_value_type"
    [] threads[t].pc \in {"first:scan", "next:vector", "next:commit", "get:vector"} -> kind
    [] OTHER -> "none"

\* *state.opened_process.lock().unwrap() = Some(process)
FirstCommitProcess(t) ==
  /\ threads[t].pc = "first:process"
  /\ Free(Wants(t), t)
  /\ IF "opened_process" \in poisoned
       THEN /\ threads' = [threads EXCEPT ![t] = Idle]
            /\ UNCHANGED opened_process
       ELSE /\ threads' = [threads EXCEPT ![t].pc = "first:type"]
            /\ opened_process' = threads[t].pid
  /\ UNCHANGED <<scan_value_type, last_scan, poisoned, started, ncommit,
                 storeVars, envVars, cmdVars>>

\* *state.scan_value_type.lock().unwrap() = value_type
FirstCommitType(t) ==
  /\ threads[t].pc = "first:type"
  /\ Free(Wants(t), t)
  /\ IF "scan_value_type" \in poisoned
       THEN /\ threads' = [threads EXCEPT ![t] = Idle]
            /\ UNCHANGED scan_value_type
       ELSE /\ threads' = [threads EXCEPT ![t].pc = "first:scan"]
            /\ scan_value_type' = threads[t].value_type
  /\ UNCHANGED <<opened_process, last_scan, poisoned, started, ncommit,
                 storeVars, envVars, cmdVars>>

\* *state.last_scan_K.lock().unwrap() = last_scan
FirstCommitScan(t) ==
  /\ threads[t].pc = "first:scan"
  /\ Free(Wants(t), t)
  /\ threads' = [threads EXCEPT ![t] = Idle]
  /\ IF kind \in poisoned
       THEN UNCHANGED <<last_scan, ncommit>>
       ELSE /\ last_scan' = [last_scan EXCEPT ![kind] = Assign(@, threads[t].result)]
            /\ ncommit' = ncommit + 1
  /\ UNCHANGED <<opened_process, scan_value_type, poisoned, started,
                 storeVars, envVars, cmdVars>>

\* next_scan_K up to `let scan = ...`: scan_value_type is locked for the log
\* line and for to_scan(..).unwrap(), which panics holding the guard.
StartNextScan(t, scan_info) ==
  LET typed == "scan_value_type" \notin poisoned
      sc == to_scan(kind, scan_info, scan_value_type)
  IN /\ threads[t].pc = "idle"
     /\ started < MaxStarted
     /\ Free("scan_value_type", t)
     /\ started' = started + 1
     /\ threads' =
          [threads EXCEPT ![t] =
             IF typed /\ sc.tag = "Some"
               THEN [Idle EXCEPT !.pc = "next:process", !.scan = sc.scan]
               ELSE Idle]
     /\ poisoned' = IF typed /\ sc.tag # "Some"
                      THEN poisoned \cup {"scan_value_type"}
                      ELSE poisoned
     /\ UNCHANGED <<opened_process, scan_value_type, last_scan, ncommit,
                    storeVars, envVars, cmdVars>>

\* state.opened_process.lock().unwrap().as_ref().unwrap(): the guard stays
\* alive to the end of the `let last_scan = ...` statement.
NextLockProcess(t) ==
  /\ threads[t].pc = "next:process"
  /\ Free(Wants(t), t)
  /\ IF "opened_process" \in poisoned \/ opened_process = NoProcess
       THEN /\ threads' = [threads EXCEPT ![t] = Idle]
            /\ poisoned' = poisoned \cup {"opened_process"}
       ELSE /\ threads' = [threads EXCEPT ![t].pc = "next:vector",
                                           ![t].held = {Wants(t)}]
            /\ UNCHANGED poisoned
  /\ UNCHANGED <<opened_process, scan_value_type, last_scan, started, ncommit,
                 storeVars, envVars, cmdVars>>

\* .rescan_regions(&state.last_scan_K.lock().unwrap(), scan): last_scan_K is
\* locked and read, the regions are rescanned, and at the end of the
\* statement both guards are dropped.
NextRescan(t) ==
  LET res == rescan_regions(kind, last_scan[kind], threads[t].scan, target_mem, {},
                            checked_build)
      locked == kind \notin poisoned
  IN /\ threads[t].pc = "next:vector"
     /\ Free(Wants(t), t)
     /\ IF locked /\ res.ok
          THEN /\ threads' = [threads EXCEPT ![t].pc = "next:commit",
                                              ![t].held = {},
                                              ![t].result = res.val,
                                              ![t].readAt = ncommit]
               /\ UNCHANGED poisoned
          ELSE /\ threads' = [threads EXCEPT ![t] = Idle]
               /\ poisoned' = poisoned \cup {"opened_process"}
                                \cup (IF locked THEN {kind} ELSE {})
     /\ UNCHANGED <<opened_process, scan_value_type, last_scan, started, ncommit,
                    storeVars, envVars, cmdVars>>

\* *state.last_scan_K.lock().unwrap() = last_scan, under a new guard
NextCommit(t) ==
  /\ threads[t].pc = "next:commit"
  /\ Free(Wants(t), t)
  /\ threads' = [threads EXCEPT ![t] = Idle]
  /\ IF kind \in poisoned
       THEN UNCHANGED <<last_scan, ncommit>>
       ELSE /\ last_scan' = [last_scan EXCEPT ![kind] = Assign(@, threads[t].result)]
            /\ ncommit' = ncommit + 1
  /\ UNCHANGED <<opened_process, scan_value_type, poisoned, started,
                 storeVars, envVars, cmdVars>>

\* clear_last_scan(): the vectors of the other kinds are empty and their
\* mutexes uncontended in these runs, so the clears are one step.
ConcClear(t) ==
  LET reached(i) == \A j \in 1..i : KindOrder[j] \notin poisoned
  IN /\ threads[t].pc = "idle"
     /\ started < MaxStarted
     /\ Free(kind, t)
     /\ started' = started + 1
     /\ last_scan' = [k \in Kinds |->
                        IF reached(Position(KindOrder, k) + 1) THEN <<>> ELSE last_scan[k]]
     /\ ncommit' = IF reached(Position(KindOrder, kind) + 1) THEN ncommit + 1 ELSE ncommit
     /\ UNCHANGED <<opened_process, scan_value_type, poisoned, threads,
                    storeVars, envVars, cmdVars>>

\* A command of one statement is invoked: the thread is at that statement
Invoke(t, at) ==
  /\ threads[t].pc = "idle"
  /\ started < MaxStarted
  /\ started' = started + 1
  /\ threads' = [threads EXCEPT ![t] = [Idle EXCEPT !.pc = at]]
  /\ UNCHANGED <<appVars, ncommit, storeVars, envVars, cmdVars>>

\* get_last_scan_K: state.last_scan_K.lock().unwrap().clone(), and what it
\* returns from the clone
GetLastScan(t, limit, offset) ==
  /\ threads[t].pc = "get:vector"
  /\ Free(Wants(t), t)
  /\ threads' = [threads EXCEPT ![t] = Idle]
  /\ lastCmd' =
       IF kind \in poisoned
         THEN Cmd("get_last_scan", Unknown, "panic", {}, FALSE, NoCmd)
         ELSE [Cmd("get_last_scan", Unknown, "ok", {}, FALSE, NoCmd)
                 EXCEPT !.ret = get_last_scan(kind, last_scan[kind], limit, offset)]
  /\ UNCHANGED <<appVars, started, ncommit, storeVars, envVars, kind, ncmd, dirty>>

\* get_opened_process: as_ref().unwrap() panics on None with the guard of
\* opened_process alive; try_into().ok() is None when the name of the
\* process cannot be read (`named` is whether Process::name succeeds).
GetOpenedProcess(t, named) ==
  LET locked == "opened_process" \notin poisoned
      some == locked /\ opened_process # NoProcess
  IN /\ threads[t].pc = "view:process"
     /\ Free(Wants(t), t)
     /\ some \/ named
     /\ threads' = [threads EXCEPT ![t] = Idle]
     /\ poisoned' = IF some THEN poisoned ELSE poisoned \cup {"opened_process"}
     /\ lastCmd' =
          IF some
            THEN [Cmd("get_opened_process", Unknown, "ok", {}, FALSE, NoCmd)
                    EXCEPT !.ret = IF named
                                     THEN [tag |-> "Some", pid |-> opened_process]
                                     ELSE [tag |-> "None"]]
            ELSE Cmd("get_opened_process", Unknown, "panic", {}, FALSE, NoCmd)
     /\ UNCHANGED <<opened_process, scan_value_type, last_scan, started, ncommit,
                    storeVars, envVars, kind, ncmd, dirty>>

\* write_opened_process_memory_K(address, value): the guard of opened_process
\* is alive during as_ref().unwrap() and write_memory.
WriteMemory(t, address, value) ==
  LET locked == "opened_process" \notin poisoned
      some == locked /\ opened_process # NoProcess
      w == write_memory(kind, target_mem, proc.regions, address, value)
  IN /\ threads[t].pc = "write:process"
     /\ Free(Wants(t), t)
     /\ threads' = [threads EXCEPT ![t] = Idle]
     /\ poisoned' = IF some THEN poisoned ELSE poisoned \cup {"opened_process"}
     /\ target_mem' = IF some THEN w.mem ELSE target_mem
     /\ lastCmd' =
          IF some
            THEN [Cmd("write_opened_process_memory", Unknown, "ok", {}, FALSE, NoCmd)
                    EXCEPT !.ret = IF w.ok
                                     THEN [tag |-> "Some", written |-> SizeOf(kind)]
                                     ELSE [tag |-> "None"]]
            ELSE Cmd("write_opened_process_memory", Unknown, "panic", {}, FALSE, NoCmd)
     /\ UNCHANGED <<opened_process, scan_value_type, last_scan, started, ncommit,
                    storeVars, checked_build, proc, short_reads, kind, ncmd, dirty>>

ConcNext ==
  \E t \in Threads :
    \/ \E si \in ConcScanInfos : StartFirstScan(t, proc.pid, kind, si)
    \/ FirstCommitProcess(t)
    \/ FirstCommitType(t)
    \/ FirstCommitScan(t)
    \/ \E si \in ConcScanInfos : StartNextScan(t, si)
    \/ NextLockProcess(t)
    \/ NextRescan(t)
    \/ NextCommit(t)
    \/ ConcClear(t)
    \/ Invoke(t, "get:vector")
    \/ GetLastScan(t, 2, 0)
    \/ Invoke(t, "view:process")
    \/ \E named \in BOOLEAN : GetOpenedProcess(t, named)
    \/ Invoke(t, "write:process")
    \/ WriteMemory(t, proc.regions[1].BaseAddress, 0)

SpecConc == ConcInit /\ [][ConcNext]_vars

\* ------------------------------------------------------------------------
\* try_compact applied to stores of every shape (region.rs location_tests)
\* ------------------------------------------------------------------------

\* Slot sets {0..SmallSlots} are enumerated exhaustively.
SmallSlots == 4

\* Dense strides have UsizeBits - 1 .. UsizeBits + DenseExtra slots ...
DenseExtra == 2

\* ... of which any of the first MaxHoles interior slots may be missing.
MaxHoles == 4

Sizes == {1, 2, 4, 8}

\* The value recorded at stride slot k of an input store.
ValOf(k) == (k % 7) - 2

\* The slot sets of the input stores for element width SIZE.
SlotSets(SIZE) ==
  (SUBSET (0..SmallSlots))
    \cup {(0..(n - 1)) \ holes :
            n \in (UsizeBits - 1)..(UsizeBits + DenseExtra),
            holes \in SUBSET (1..MaxHoles)}
    \cup {{0, k} : k \in {7, 8, U16Max \div SIZE, (U16Max \div SIZE) + 1}}
    \cup {{0, 1, k} : k \in {U16Max \div SIZE, (U16Max \div SIZE) + 1}}

\* BTreeMap::from of the entries at the given stride slots above lo
KVStore(SIZE, lo, slots) ==
  KeyValue([a \in {lo + k * SIZE : k \in slots} |-> ValOf((a - lo) \div SIZE)])

\* Stores whose keys are not all lo + k*SIZE
UnalignedStores(SIZE, lo) ==
  IF SIZE = 1 THEN {}
  ELSE {KeyValue([a \in {lo, lo + 1, lo + SIZE} |-> a - lo]),
        KeyValue([a \in {lo, lo + SIZE, lo + (3 * SIZE) - 1} |-> a - lo])}

InputStores(SIZE) ==
  {KVStore(SIZE, 8192, slots) : slots \in SlotSets(SIZE)}
    \cup UnalignedStores(SIZE, 8192)

\* The stores Scan::run builds without try_compact: SameValue for Exact,
\* Range over the whole region for the scans without a value
ScanStores(SIZE) ==
  {SameValue(SortedSeq({8192 + k * SIZE : k \in slots}), 1) :
     slots \in SUBSET (0..SmallSlots)}
    \cup {Range(8192, 8192 + n * SIZE, [i \in 1..n |-> ValOf(i - 1)]) :
            n \in 1..(SmallSlots + 1)}

\* The session is not part of these runs.
SessionIdle ==
  /\ checked_build = TRUE
  /\ proc = SizedProc(4)
  /\ kind = "i32"
  /\ target_mem = [a \in {32768} |-> MemOf(kind, 4, AllOf(1))]
  /\ short_reads = {}
  /\ AppInit
  /\ lastCmd = Cmd("none", Unknown, "ok", {}, FALSE, NoCmd)
  /\ ncmd = 0
  /\ dirty = FALSE
  /\ NoThreads

StoreInit ==
  /\ ssize \in Sizes
  /\ store \in InputStores(ssize) \cup ScanStores(ssize)
  /\ orig = store
  /\ ncompact = 0
  /\ SessionIdle

\* locations.try_compact()
Compact ==
  /\ ncompact < 2
  /\ orig' = store
  /\ store' = try_compact(ssize, store)
  /\ ncompact' = ncompact + 1
  /\ UNCHANGED <<ssize, envVars, appVars, cmdVars, concVars>>

StoreNext == Compact

SpecStore == StoreInit /\ [][StoreNext]_vars

\* ------------------------------------------------------------------------
\* Properties of try_compact
\* ------------------------------------------------------------------------

\* A KeyValue store whose keys are all lo + k*SIZE
Aligned(SIZE, l) ==
  /\ l.style = "KeyValue"
  /\ \A a \in DOMAIN l.map : (a - Min(DOMAIN l.map)) % SIZE = 0

\* C2: try_compact of a KeyValue store with SIZE-aligned keys leaves the
\* (address, value) pairs of into_locations() the same, in the same ascending
\* order, whichever encoding it chooses.
C2_CompactPreservesLocations ==
  (ncompact >= 1 /\ Aligned(ssize, orig))
    => into_locations(ssize, store) = into_locations(ssize, orig)

\* C2 witness: a stride of more than UsizeBits slots with holes was rewritten
\* into an ExcludedRange.
C2_Witness ==
  /\ ncompact = 1
  /\ Aligned(ssize, orig)
  /\ store.style = "ExcludedRange"
  /\ Len(store.excluded) > 1
  /\ ssize > 1

\* The encoding the compaction policy prescribes for a KeyValue store with
\* n >= 2 entries, and its contents.
Prescribed(SIZE, l) ==
  LET keys == DOMAIN l.map
      n == Cardinality(keys)
      lo == Min(keys)
      hi == Max(keys)
      span == hi - lo
      slots == (span \div SIZE) + 1
      sorted == SortedSeq(keys)
      vals == [i \in 1..n |-> l.map[sorted[i]]]
  IN IF n = slots
       THEN Range(lo, hi + 1, vals)
     ELSE IF slots <= UsizeBits /\ UsizeBytes + slots < n * UsizeBytes
       THEN Masked(lo, [i \in 1..slots |-> (lo + (i - 1) * SIZE) \in keys], vals)
     ELSE IF n * 100 >= 95 * slots
       THEN ExcludedRange(lo, hi + 1,
                          SortedSeq({lo + k * SIZE : k \in 0..(slots - 1)} \ keys),
                          vals)
     ELSE IF span <= 65535
       THEN Offsetted(lo, [o \in {k - lo : k \in keys} |-> l.map[lo + o]])
     ELSE l

\* C3: try_compact of a KeyValue store with at least 2 SIZE-aligned entries
\* yields the first matching of Range, Masked, ExcludedRange, Offsetted, and
\* otherwise the unchanged KeyValue.
C3_CompactChoosesPolicy ==
  (ncompact = 1 /\ Aligned(ssize, orig) /\ Cardinality(DOMAIN orig.map) >= 2)
    => store = Prescribed(ssize, orig)

\* C3 witness: a store that satisfies both the Masked and the ExcludedRange
\* rule was compacted (and became Masked, the earlier rule).
C3_Witness ==
  /\ ncompact = 1
  /\ Aligned(ssize, orig)
  /\ LET n == Cardinality(DOMAIN orig.map)
         slots == ((Max(DOMAIN orig.map) - Min(DOMAIN orig.map)) \div ssize) + 1
     IN /\ n >= 2
        /\ n < slots
        /\ slots <= UsizeBits
        /\ UsizeBytes + slots < n * UsizeBytes
        /\ n * 100 >= 95 * slots
  /\ store.style = "Masked"

\* A store the program can hold: a KeyValue map of SIZE-aligned keys or a
\* store built by Scan::run, before or after one try_compact.
Producible ==
  /\ ncompact <= 1
  /\ orig.style = "KeyValue" => Aligned(ssize, orig)

\* C1: for every store in every encoding and every SIZE, len() equals the
\* number of addresses that addresses() yields.
C1_LenEqualsAddressCount ==
  Producible => len(ssize, store) = Len(addresses(ssize, store))

\* C9: value_at(a) of every stored address a is the value into_locations()
\* pairs with a, in every encoding, and try_compact leaves the value_at of
\* every stored address as it was.
C9_ValueAtMatchesLocations ==
  LET locs == into_locations(ssize, store)
      before == addresses(ssize, orig)
  IN Producible =>
       /\ \A i \in 1..Len(locs) :
            value_at(ssize, store, locs[i].address) = Ok(locs[i].value)
       /\ \A i \in 1..Len(before) :
            value_at(ssize, store, before[i]) = value_at(ssize, orig, before[i])

\* C9 witness: a compacted ExcludedRange of 8-byte elements whose excluded
\* addresses lie below stored ones.
C9_Witness ==
  /\ ncompact = 1
  /\ Aligned(ssize, orig)
  /\ store.style = "ExcludedRange"
  /\ ssize = 8
  /\ Len(store.excluded) = 3
  /\ value_at(ssize, store, Max(DOMAIN orig.map)) = Ok(orig.map[Max(DOMAIN orig.map)])

\* ------------------------------------------------------------------------
\* Properties of the scans of a session
\* ------------------------------------------------------------------------

\* The step is a next_scan_K that returned
NextScanDone ==
  /\ ncmd' = ncmd + 1
  /\ lastCmd'.op = "next_scan"
  /\ lastCmd'.outcome = "ok"

\* C4: a rescan never makes len() of a region larger, and Unknown leaves it
\* as it is.
C4_RescanMonotonic ==
  [][NextScanDone =>
       \A i \in 1..Len(last_scan'[kind]), j \in 1..Len(last_scan[kind]) :
         last_scan'[kind][i].info = last_scan[kind][j].info =>
           IF lastCmd'.scan.typ = "Unknown"
             THEN len(SizeOf(kind), last_scan'[kind][i].locations)
                    = len(SizeOf(kind), last_scan[kind][j].locations)
             ELSE len(SizeOf(kind), last_scan'[kind][i].locations)
                    <= len(SizeOf(kind), last_scan[kind][j].locations)]_vars

\* C5: the addresses of each region after a rescan are among the addresses of
\* that region before it, and the same addresses for Unknown.
C5_CandidatesOnlyNarrow ==
  [][NextScanDone =>
       \A i \in 1..Len(last_scan'[kind]) :
         \E j \in 1..Len(last_scan[kind]) :
           /\ last_scan'[kind][i].info = last_scan[kind][j].info
           /\ SeqToSet(addresses(SizeOf(kind), last_scan'[kind][i].locations))
                \subseteq SeqToSet(addresses(SizeOf(kind), last_scan[kind][j].locations))
           /\ lastCmd'.scan.typ = "Unknown" =>
                addresses(SizeOf(kind), last_scan'[kind][i].locations)
                  = addresses(SizeOf(kind), last_scan[kind][j].locations)]_vars

\* C5 witness: a Changed rescan after the target wrote narrowed the whole
\* region of an Unknown first scan to a Masked store.
C5_Witness ==
  /\ lastCmd.op = "next_scan" /\ lastCmd.outcome = "ok"
  /\ lastCmd.scan.typ = "Changed" /\ lastCmd.stale
  /\ lastCmd.before.op = "first_scan" /\ lastCmd.before.outcome = "ok"
  /\ lastCmd.before.scan.typ = "Unknown"
  /\ \E i \in 1..Len(last_scan[kind]) : last_scan[kind][i].locations.style = "Masked"

\* C6: addresses() and into_locations() yield the same sequence of addresses,
\* strictly ascending, for every store the scans produce over a region of any
\* size.
C6_IterationInvariance ==
  \A i \in 1..Len(last_scan[kind]) :
    LET a == addresses(SizeOf(kind), last_scan[kind][i].locations)
        locs == into_locations(SizeOf(kind), last_scan[kind][i].locations)
    IN /\ a = [j \in 1..Len(locs) |-> locs[j].address]
       /\ \A j \in 1..(Len(a) - 1) : a[j] < a[j + 1]

\* C7: every candidate address a of a region has (a - base) mod SIZE = 0 and
\* base <= a < base + byte_size.
C7_CandidatesAligned ==
  \A i \in 1..Len(last_scan[kind]) :
    LET a == addresses(SizeOf(kind), last_scan[kind][i].locations)
        info == last_scan[kind][i].info
    IN \A j \in 1..Len(a) :
         /\ (a[j] - info.BaseAddress) % SizeOf(kind) = 0
         /\ info.BaseAddress <= a[j]
         /\ a[j] < info.BaseAddress + info.RegionSize

\* C7 witness: a rescan left a region compacted to an ExcludedRange.
C7_Witness ==
  /\ lastCmd.op = "next_scan" /\ lastCmd.outcome = "ok"
  /\ \E i \in 1..Len(last_scan[kind]) :
       /\ last_scan[kind][i].locations.style = "ExcludedRange"
       /\ Len(last_scan[kind][i].locations.excluded) = 2

\* C8: next_scan Exact v right after first_scan Exact v, over the identical
\* memory, leaves the same regions with the same addresses(), stored as
\* SameValue with value v.
C8_ExactRescanFixpoint ==
  [][(/\ lastCmd.op = "first_scan" /\ lastCmd.outcome = "ok"
      /\ lastCmd.scan.typ = "Exact" /\ lastCmd.failed = {}
      /\ ~dirty
      /\ NextScanDone
      /\ lastCmd'.scan = lastCmd.scan /\ lastCmd'.failed = {}) =>
       /\ Len(last_scan'[kind]) = Len(last_scan[kind])
       /\ \A i \in 1..Len(last_scan[kind]) :
            /\ last_scan'[kind][i].info = last_scan[kind][i].info
            /\ last_scan'[kind][i].locations.style = "SameValue"
            /\ last_scan'[kind][i].locations.value = lastCmd.scan.a
            /\ addresses(SizeOf(kind), last_scan'[kind][i].locations)
                 = addresses(SizeOf(kind), last_scan[kind][i].locations)]_vars

\* C8 witness: next_scan Exact 1 returned right after first_scan Exact 1 over
\* unchanged memory, with two regions holding candidates.
C8_Witness ==
  /\ lastCmd.op = "next_scan" /\ lastCmd.outcome = "ok"
  /\ lastCmd.scan = Exact(1) /\ lastCmd.failed = {} /\ ~lastCmd.stale
  /\ lastCmd.before.op = "first_scan" /\ lastCmd.before.outcome = "ok"
  /\ lastCmd.before.scan = Exact(1) /\ lastCmd.before.failed = {}
  /\ Len(last_scan[kind]) = 2
  /\ Len(last_scan[kind][1].locations.locations) > 1

\* ------------------------------------------------------------------------
\* Properties of the commands under interleaving
\* ------------------------------------------------------------------------

\* C10: when a next_scan_K assigns its result to last_scan_K, the vector it
\* replaces is the one it read: no other command has assigned or cleared
\* last_scan_K since (no lost update).
C10_NoLostUpdate ==
  [][\A t \in Threads :
       (threads[t].pc = "next:commit" /\ threads'[t].pc = "idle"
          /\ ncommit' = ncommit + 1)
         => threads[t].readAt = ncommit]_vars

\* ------------------------------------------------------------------------
\* The session under concurrent commands
\* ------------------------------------------------------------------------

\* The predicates the threads scan with
ConcScans ==
  {to_scan(kind, si, kind).scan :
     si \in {x \in ConcScanInfos : to_scan(kind, x, kind).tag = "Some"}}

\* The vectors that are the whole result of a scan command, or of a clear:
\* the empty vector, every first scan of the target, and every rescan of
\* such a vector, n deep, over the contents the target's memory goes through.
RECURSIVE WholeResults(_)
WholeResults(n) ==
  IF n = 0 THEN {<<>>}
  ELSE LET prev == WholeResults(n - 1)
           mems == Snapshots(kind, proc)
           re(x) == rescan_regions(kind, x[1], x[2], x[3], {}, checked_build)
       IN prev
            \cup {scan_regions(kind, Scannable(proc.regions), x[1], x[2], {}) :
                    x \in ConcScans \X mems}
            \cup {re(x).val : x \in {y \in prev \X ConcScans \X mems : re(y).ok}}

\* The order the session's fields are locked in
Rank(m) ==
  CASE m = "opened_process" -> 1
    [] m = "scan_value_type" -> 2
    [] OTHER -> 3

\* Claim C12: deadlock freedom by lock order. No thread in a command waits
\* for a mutex that is not after every mutex it holds in the order
\* opened_process, scan_value_type, last_scan_K; and whenever some thread is
\* inside a command, some such thread can take the mutex its next statement
\* locks.
C12_LockOrderNoDeadlock ==
  /\ \A t \in Threads : \A m \in threads[t].held :
       Wants(t) # "none" => Rank(m) < Rank(Wants(t))
  /\ (\E t \in Threads : threads[t].pc # "idle")
       => \E t \in Threads : threads[t].pc # "idle" /\ Free(Wants(t), t)

\* A next_scan_K holds the guard of opened_process and is about to lock
\* last_scan_K while another command waits for opened_process.
C12_Witness ==
  \E t, u \in Threads :
    /\ threads[t].pc = "next:vector"
    /\ threads[t].held = {"opened_process"}
    /\ threads[u].pc # "idle"
    /\ ~Free(Wants(u), u)

\* Claim C11: get_last_scan_K never observes a partial mid-scan state. Under
\* every interleaving last_scan_K, empty at first, only ever changes to the
\* whole result of a scan command (or to the empty vector), and the vector
\* get_last_scan_K clones is the one held at that moment.
C11_GetLastScanSeesWholeResults ==
  [][/\ \/ last_scan'[kind] = last_scan[kind]
        \/ last_scan'[kind] \in WholeResults(MaxStarted)
     /\ \A t \in Threads :
          (threads[t].pc = "get:vector" /\ threads'[t].pc = "idle"
             /\ lastCmd'.outcome = "ok")
            => lastCmd'.ret.regions = last_scan[kind]]_vars

\* get_last_scan_K has returned the vector of the scan before while another
\* scan, with a different result, is about to commit.
C11_Witness ==
  /\ lastCmd.op = "get_last_scan"
  /\ lastCmd.outcome = "ok"
  /\ lastCmd.ret.regions # <<>>
  /\ \E t \in Threads :
       /\ threads[t].pc \in {"first:scan", "next:commit"}
       /\ threads[t].result # lastCmd.ret.regions

\* ------------------------------------------------------------------------
\* Commands that fail or are refused
\* ------------------------------------------------------------------------

\* A scan command has run in this step
ScanCmdDone ==
  /\ ncmd' = ncmd + 1
  /\ lastCmd'.op \in {"first_scan", "next_scan"}

\* Claim C13: no partial commit. A first_scan_K or next_scan_K that does not
\* run to completion leaves opened_process, scan_value_type and every
\* last_scan_K as they were; so a first_scan_K assigns all three of
\* opened_process, scan_value_type and last_scan_K or none of them.
C13_NoPartialCommit ==
  [][(ScanCmdDone /\ lastCmd'.outcome = "panic")
       => /\ opened_process' = opened_process
          /\ scan_value_type' = scan_value_type
          /\ last_scan' = last_scan]_vars

\* Claim C14: refused scans. When a first_scan_K or next_scan_K gets no
\* predicate from to_scan (value_type or the active kind is not K, the value
\* string does not parse, or typ does not go with the shape of value),
\* to_scan has returned None, and opened_process, scan_value_type and every
\* last_scan_K are as before the command.
C14_RefusedScansYieldNull ==
  [][(ScanCmdDone /\ lastCmd'.built \in {"None", "Panic"})
       => /\ lastCmd'.built = "None"
          /\ opened_process' = opened_process
          /\ scan_value_type' = scan_value_type
          /\ last_scan' = last_scan]_vars

\* Claim C15: get_opened_process returns null when no target has been
\* opened and the pid (and name) of the opened target otherwise, and it
\* leaves the session as it was.
C15_GetOpenedProcessView ==
  [][\A t \in Threads :
       (threads[t].pc = "view:process" /\ threads'[t].pc = "idle")
         => /\ lastCmd'.outcome = "ok"
            /\ lastCmd'.ret = IF opened_process = NoProcess
                                THEN [tag |-> "None"]
                                ELSE [tag |-> "Some", pid |-> opened_process]
            /\ UNCHANGED appVars]_vars

\* ------------------------------------------------------------------------
\* The regions a scan keeps
\* ------------------------------------------------------------------------

\* A region holds at least one candidate address
HasCandidates(k, region) == Len(addresses(SizeOf(k), region.locations)) > 0

\* Claim C16: no empty regions. Every Region in last_scan_K holds at least
\* one candidate address, and a scan command that returns keeps every region
\* it read whose scan (run for first_scan_K, rerun for next_scan_K) left at
\* least one candidate.
C16_NoEmptyRegions ==
  [][/\ \A i \in 1..Len(last_scan'[kind]) : HasCandidates(kind, last_scan'[kind][i])
     /\ (ScanCmdDone /\ lastCmd'.outcome = "ok" /\ lastCmd'.op = "first_scan")
          => LET infos == Scannable(proc.regions)
             IN \A i \in 1..Len(infos) :
                  (/\ ~ReadFails(infos[i], lastCmd'.failed)
                   /\ HasCandidates(kind, run(kind, lastCmd'.scan, infos[i],
                                              read_memory(target_mem, infos[i]))))
                    => infos[i].BaseAddress \in RegionBases(last_scan'[kind])
     /\ (ScanCmdDone /\ lastCmd'.outcome = "ok" /\ lastCmd'.op = "next_scan")
          => \A i \in 1..Len(last_scan[kind]) :
               LET old == last_scan[kind][i]
                   new == rerun(kind, lastCmd'.scan, old,
                                read_memory(target_mem, old.info), checked_build)
               IN (/\ ~ReadFails(old.info, lastCmd'.failed)
                   /\ new.ok
                   /\ HasCandidates(kind, new.val))
                    => old.info.BaseAddress \in RegionBases(last_scan'[kind])]_vars

\* A scan that read every region has kept one region and dropped another,
\* which had no candidate left.
C16_Witness ==
  /\ lastCmd.op \in {"first_scan", "next_scan"}
  /\ lastCmd.outcome = "ok"
  /\ lastCmd.failed = {}
  /\ lastCmd.built = "Some"
  /\ Len(last_scan[kind]) = 1
  /\ Len(Scannable(proc.regions)) = 2

\* The regions of a vector whose read did not fail
Unfailed(regions, failed) ==
  SelectSeq(regions, LAMBDA r : r.info.BaseAddress \notin failed)

\* Claim C17: a read failure is recovered region by region. When the reads of
\* some regions fail during a first_scan_K or next_scan_K that no poisoned
\* mutex stops, the command returns and commits the result it would have
\* committed had no read failed, without the regions whose read failed.
C17_ReadFailureSkipsRegion ==
  [][(ScanCmdDone /\ lastCmd'.built = "Some" /\ poisoned = {})
       => /\ lastCmd'.op = "first_scan"
               => /\ lastCmd'.outcome = "ok"
                  /\ last_scan'[kind] =
                       Unfailed(scan_regions(kind, Scannable(proc.regions), lastCmd'.scan,
                                             target_mem, {}),
                                lastCmd'.failed)
          /\ (lastCmd'.op = "next_scan" /\ opened_process # NoProcess)
               => LET whole == rescan_regions(kind, last_scan[kind], lastCmd'.scan,
                                              target_mem, {}, checked_build)
                  IN whole.ok
                       => /\ lastCmd'.outcome = "ok"
                          /\ last_scan'[kind] = Unfailed(whole.val, lastCmd'.failed)]_vars

\* A scan during which the read of one region failed has returned with the
\* candidates of another region.
C17_Witness ==
  /\ lastCmd.op \in {"first_scan", "next_scan"}
  /\ lastCmd.outcome = "ok"
  /\ lastCmd.failed # {}
  /\ last_scan[kind] # <<>>

ReadWritable(info) ==
  /\ BitAnd(info.Protect, MASK) # 0
  /\ BitAnd(info.Protect, PAGE_GUARD) = 0

\* Claim C19: region filter. A first_scan_K reads only regions that are
\* readable and writable and not guarded (the regions it read are those it
\* kept and those whose read failed), and with Unknown and no failed read it
\* keeps exactly those regions.
C19_RegionFilter ==
  [][(ScanCmdDone /\ lastCmd'.op = "first_scan" /\ lastCmd'.outcome = "ok")
       => LET wanted == InfoBases(SelectSeq(proc.regions, ReadWritable))
          IN /\ RegionBases(last_scan'[kind]) \cup lastCmd'.failed \subseteq wanted
             /\ (lastCmd'.scan = Unknown /\ lastCmd'.failed = {})
                  => RegionBases(last_scan'[kind]) = wanted]_vars

\* ------------------------------------------------------------------------
\* The regions of the other kinds
\* ------------------------------------------------------------------------

\* Claim C20: region lifecycle across kinds. After a first_scan_K that
\* returns (K is then the active kind), last_scan_K' is empty for every
\* other kind K'.
C20_FirstScanDropsOtherKinds ==
  [][(ScanCmdDone /\ lastCmd'.op = "first_scan" /\ lastCmd'.outcome = "ok")
       => \A k \in Kinds \ {scan_value_type'} : last_scan'[k] = <<>>]_vars

\* ------------------------------------------------------------------------
\* The session across commands
\* ------------------------------------------------------------------------

\* A command of the given name has run in this step and returned
Returned(op) ==
  /\ ncmd' = ncmd + 1
  /\ lastCmd'.op = op
  /\ lastCmd'.outcome = "ok"

\* Claim C21: target handle lifetime. After a clear_last_scan that returns,
\* the session holds no opened process and every last_scan_K is empty; after
\* a first_scan_K that returns, the one process the session holds is the one
\* that command opened.
C21_ClearClosesTarget ==
  [][/\ Returned("clear_last_scan")
          => /\ opened_process' = NoProcess
             /\ \A k \in Kinds : last_scan'[k] = <<>>
     /\ Returned("first_scan") => opened_process' = proc.pid]_vars

\* Claim C22: the value kind is fixed per session. When the command before
\* was a first_scan_K that returned, and so set scan_value_type, the next
\* command, which no clear_last_scan precedes, leaves scan_value_type as
\* it is.
C22_KindFixedUntilClear ==
  [][(lastCmd.op = "first_scan" /\ lastCmd.outcome = "ok")
       => scan_value_type' = scan_value_type]_vars

\* ------------------------------------------------------------------------
\* The page of candidates shown to the user
\* ------------------------------------------------------------------------

\* The candidates of a vector of regions: the regions in stored order, the
\* addresses of each ascending, each with the value held for it
RECURSIVE Flattened(_, _)
Flattened(k, regions) ==
  IF regions = <<>> THEN <<>>
  ELSE LET l == Head(regions).locations
           as == SortedSeq(SeqToSet(addresses(SizeOf(k), l)))
       IN [i \in 1..Len(as) |-> Location(as[i], value_at(SizeOf(k), l, as[i]).val)]
            \o Flattened(k, Tail(regions))

\* Claim C23: pagination. get_last_scan_K(limit, offset) returns the elements
\* [offset, offset + limit) of the flattening of last_scan_K and, as total,
\* the length of the whole flattening; with offset 0 and limit >= total the
\* window holds total elements.
C23_Pagination ==
  [][Returned("get_last_scan")
       => LET got == lastCmd'.ret
              flat == Flattened(got.k, last_scan[got.k])
          IN /\ got.total = Len(flat)
             /\ got.locations =
                  SubSeq(flat, got.offset + 1, Min({Len(flat), got.offset + got.limit}))
             /\ (got.offset = 0 /\ got.limit >= got.total)
                  => Len(got.locations) = got.total]_vars

\* ------------------------------------------------------------------------
\* Rescans by a difference
\* ------------------------------------------------------------------------

\* Claim C24: wrapping subtraction. A next_scan_K with DecreasedBy(n) or
\* IncreasedBy(n) that gets to its rescan returns, for every old and new
\* value, and commits the regions a rescan with wrapping subtraction keeps.
C24_WrappingSub ==
  [][(/\ ScanCmdDone
      /\ lastCmd'.op = "next_scan"
      /\ lastCmd'.built = "Some"
      /\ lastCmd'.scan.typ \in {"DecreasedBy", "IncreasedBy"}
      /\ poisoned = {}
      /\ opened_process # NoProcess)
       => /\ lastCmd'.outcome = "ok"
          /\ last_scan'[kind] =
               rescan_regions(kind, last_scan[kind], lastCmd'.scan, target_mem,
                              lastCmd'.failed, FALSE).val]_vars


\* ------------------------------------------------------------------------
\* Lookups during a rescan
\* ------------------------------------------------------------------------

\* Claim C25: no lookup out of bounds. For every region of the committed
\* vector, whatever its byte size, every address of addresses() has a stored
\* value and its SIZE-byte slice lies inside a buffer of the region's size.
C25_LookupsInBounds ==
  \A i \in 1..Len(last_scan[kind]) :
    LET region == last_scan[kind][i]
        SIZE == SizeOf(kind)
        addrs == addresses(SIZE, region.locations)
    IN \A j \in 1..Len(addrs) :
         /\ value_at(SIZE, region.locations, addrs[j]).ok
         /\ addrs[j] - region.info.BaseAddress >= 0
         /\ addrs[j] - region.info.BaseAddress + SIZE <= region.info.RegionSize


\* ------------------------------------------------------------------------
\* The acceptance table of a rescan
\* ------------------------------------------------------------------------

\* The predicates of the table
TablePredicates ==
  {"InRange", "Unchanged", "Changed", "Decreased", "Increased",
   "DecreasedBy", "IncreasedBy"}

\* n is the difference d in the kind's wrapping arithmetic: the two agree in
\* their SIZE low bytes
WrapsTo(k, d, n) == \A i \in 0..(SizeOf(k) - 1) : ByteAt(d, i) = ByteAt(n, i)

\* The table, on the numbers old and new
Admits(k, scan, old, new) ==
  CASE scan.typ = "InRange" -> scan.a <= new /\ new <= scan.b
    [] scan.typ = "Unchanged" -> new = old
    [] scan.typ = "Changed" -> new # old
    [] scan.typ = "Decreased" -> new < old
    [] scan.typ = "Increased" -> new > old
    [] scan.typ = "DecreasedBy" -> WrapsTo(k, old - new, scan.a)
    [] scan.typ = "IncreasedBy" -> WrapsTo(k, new - old, scan.a)

\* The locations the table keeps of a region, with the values now in memory
TableKeeps(k, scan, region, mem) ==
  LET SIZE == SizeOf(k)
      bytes == mem[region.info.BaseAddress]
      now(a) == Decode(k, SubSeq(bytes, a - region.info.BaseAddress + 1,
                                 a - region.info.BaseAddress + SIZE))
  IN {Location(a, now(a)) :
        a \in {x \in SeqToSet(addresses(SIZE, region.locations)) :
                 Admits(k, scan, value_at(SIZE, region.locations, x).val, now(x))}}

\* The locations a vector holds for the region described by info
LocationsOf(k, regions, info) ==
  UNION {SeqToSet(into_locations(SizeOf(k), regions[i].locations)) :
           i \in {j \in 1..Len(regions) : regions[j].info = info}}

\* The step is a next_scan_K that got to its rescan with a predicate of the table
TableRescan ==
  /\ ScanCmdDone
  /\ lastCmd'.op = "next_scan"
  /\ lastCmd'.built = "Some"
  /\ lastCmd'.scan.typ \in TablePredicates
  /\ poisoned = {}
  /\ opened_process # NoProcess

\* Claim C26: the acceptance table. A rescan with InRange, Unchanged, Changed,
\* Decreased, Increased, DecreasedBy or IncreasedBy returns, and of every
\* region it read it keeps exactly the addresses the table admits for the old
\* and the new value, each recorded with the new value.
C26_AcceptanceTable ==
  [][TableRescan =>
       /\ lastCmd'.outcome = "ok"
       /\ \A j \in 1..Len(last_scan[kind]) :
            last_scan[kind][j].info.BaseAddress \notin lastCmd'.failed =>
              LocationsOf(kind, last_scan'[kind], last_scan[kind][j].info)
                = TableKeeps(kind, lastCmd'.scan, last_scan[kind][j], target_mem)]_vars

\* The table for the rescans that return
C26_TableWhenReturned ==
  [][(TableRescan /\ lastCmd'.outcome = "ok") =>
       \A j \in 1..Len(last_scan[kind]) :
         last_scan[kind][j].info.BaseAddress \notin lastCmd'.failed =>
           LocationsOf(kind, last_scan'[kind], last_scan[kind][j].info)
             = TableKeeps(kind, lastCmd'.scan, last_scan[kind][j], target_mem)]_vars


\* ------------------------------------------------------------------------
\* The result of a first scan
\* ------------------------------------------------------------------------

\* What a first scan admits of a window holding the number w
FirstAdmits(scan, w) ==
  CASE scan.typ = "Exact" -> w = scan.a
    [] scan.typ = "InRange" -> scan.a <= w /\ w <= scan.b
    [] OTHER -> TRUE

\* The number in the aligned window at an offset of a region's bytes
WindowValue(k, mem, info, o) ==
  Decode(k, SubSeq(mem[info.BaseAddress], o + 1, o + SizeOf(k)))

\* The offsets of the aligned windows of a region
AlignedOffsets(k, info) ==
  {o \in 0..(info.RegionSize - SizeOf(k)) : o % SizeOf(k) = 0}

\* The locations a first scan keeps of a region
FirstKeeps(k, scan, info, mem) ==
  {Location(info.BaseAddress + o, WindowValue(k, mem, info, o)) :
     o \in {x \in AlignedOffsets(k, info) : FirstAdmits(scan, WindowValue(k, mem, info, x))}}

\* Claim C27: the result of a first scan. Of every region it read, a
\* first_scan_K that returned holds exactly the aligned windows its predicate
\* admits, each with its value: as SameValue{v} for Exact(v), and for every
\* predicate other than Exact and InRange as the Range over the whole region
\* with the value of every aligned window, the result of Unknown.
C27_FirstScanResult ==
  [][Returned("first_scan") =>
       \A n \in 1..Len(Scannable(proc.regions)) :
         LET info == Scannable(proc.regions)[n]
             scan == lastCmd'.scan
             SIZE == SizeOf(kind)
         IN info.BaseAddress \notin lastCmd'.failed =>
              /\ LocationsOf(kind, last_scan'[kind], info)
                   = FirstKeeps(kind, scan, info, target_mem)
              /\ \A i \in 1..Len(last_scan'[kind]) :
                   last_scan'[kind][i].info = info =>
                     CASE scan.typ = "Exact" ->
                            /\ last_scan'[kind][i].locations.style = "SameValue"
                            /\ last_scan'[kind][i].locations.value = scan.a
                       [] scan.typ = "InRange" -> TRUE
                       [] OTHER ->
                            /\ last_scan'[kind][i]
                                 = run(kind, Unknown, info, target_mem[info.BaseAddress])
                            /\ last_scan'[kind][i].locations
                                 = Range(info.BaseAddress, info.BaseAddress + info.RegionSize,
                                         [w \in 1..(info.RegionSize \div SIZE) |->
                                            WindowValue(kind, target_mem, info, (w - 1) * SIZE)])]_vars

\* C27 witness: a first scan with a predicate that is meant for rescans
\* returned and holds a whole region as a Range.
C27_Witness ==
  /\ lastCmd.op = "first_scan" /\ lastCmd.outcome = "ok"
  /\ lastCmd.scan.typ = "DecreasedBy"
  /\ lastCmd.failed = {}
  /\ Len(last_scan[kind]) = 2
  /\ \A i \in 1..Len(last_scan[kind]) : last_scan[kind][i].locations.style = "Range"


\* ------------------------------------------------------------------------
\* try_compact outside its domain
\* ------------------------------------------------------------------------

\* Claim C28: try_compact is a no-op outside its domain. It leaves a store
\* that is not a KeyValue, and a KeyValue of fewer than 2 entries, exactly as
\* it was; a KeyValue that stays a KeyValue keeps its entries; and compacting
\* the compacted store again changes nothing.
C28_CompactNoOpOutsideDomain ==
  [][ncompact' = ncompact + 1 =>
       /\ store.style # "KeyValue" => store' = store
       /\ (store.style = "KeyValue" /\ Cardinality(DOMAIN store.map) < 2) => store' = store
       /\ store'.style = "KeyValue" => store' = store
       /\ ncompact = 1 => store' = store]_vars

\* C28 witness: a store of two keys more than 65535 apart was compacted twice
\* and is the KeyValue it was.
C28_Witness ==
  /\ ncompact = 2
  /\ orig.style = "KeyValue"
  /\ store = orig
  /\ Cardinality(DOMAIN store.map) = 2
  /\ Max(DOMAIN store.map) - Min(DOMAIN store.map) > U16Max


\* ------------------------------------------------------------------------
\* The relative predicates
\* ------------------------------------------------------------------------

\* The addresses a vector holds for the region described by info
AddressesOf(k, regions, info) ==
  UNION {SeqToSet(addresses(SizeOf(k), regions[i].locations)) :
           i \in {j \in 1..Len(regions) : regions[j].info = info}}

\* The addresses of a region that Scan::rerun keeps over the memory as it is now
Survivors(scan, region) ==
  SeqToSet(addresses(SizeOf(kind),
                     rerun(kind, scan, region, read_memory(target_mem, region.info),
                           checked_build).val.locations))

\* Claim C29: the relative predicates partition the candidates. When a
\* next_scan_K with Unchanged, Changed, Decreased or Increased returned, then
\* for every region it read the addresses it kept and the addresses rescans of
\* the same region over the same memory keep with the other predicates are such
\* that Unchanged, Decreased and Increased are pairwise disjoint and cover the
\* region's addresses, and Changed keeps what Unchanged rejects.
C29_RelativePartition ==
  [][(/\ Returned("next_scan")
      /\ lastCmd'.built = "Some"
      /\ lastCmd'.scan.typ \in {"Unchanged", "Changed", "Decreased", "Increased"})
       => \A j \in 1..Len(last_scan[kind]) :
            LET region == last_scan[kind][j]
                all == SeqToSet(addresses(SizeOf(kind), region.locations))
                S(scan) == IF scan.typ = lastCmd'.scan.typ
                             THEN AddressesOf(kind, last_scan'[kind], region.info)
                             ELSE Survivors(scan, region)
            IN region.info.BaseAddress \notin lastCmd'.failed =>
                 /\ S(Unchanged) \cap S(Decreased) = {}
                 /\ S(Unchanged) \cap S(Increased) = {}
                 /\ S(Decreased) \cap S(Increased) = {}
                 /\ S(Unchanged) \cup S(Decreased) \cup S(Increased) = all
                 /\ S(Changed) = all \ S(Unchanged)]_vars

\* C29 witness: after the target wrote, a Decreased rescan of an Unknown first
\* scan kept some of the region at 8192, and no more than a third of its slots.
C29_Witness ==
  /\ lastCmd.op = "next_scan" /\ lastCmd.outcome = "ok"
  /\ lastCmd.scan.typ = "Decreased" /\ lastCmd.stale
  /\ lastCmd.failed = {}
  /\ lastCmd.before.op = "first_scan" /\ lastCmd.before.scan.typ = "Unknown"
  /\ \E i \in 1..Len(last_scan[kind]) :
       LET n == Cardinality(SeqToSet(addresses(SizeOf(kind), last_scan[kind][i].locations)))
       IN /\ last_scan[kind][i].info.BaseAddress = 8192
          /\ 0 < n
          /\ 3 * n <= last_scan[kind][i].info.RegionSize \div SizeOf(kind)


\* ------------------------------------------------------------------------
\* The session after a failed command
\* ------------------------------------------------------------------------

\* Claim C30: a failed command does not disable the session. A first_scan_K
\* with valid arguments that follows a next_scan_K which failed because it was
\* refused (no predicate could be built) or because no target was open runs to
\* completion and commits the target, the kind and its vector.
C30_FailedCommandLeavesSessionUsable ==
  [][(/\ ScanCmdDone
      /\ lastCmd'.op = "first_scan"
      /\ lastCmd'.built = "Some"
      /\ lastCmd.op = "next_scan"
      /\ lastCmd.outcome = "panic"
      /\ (lastCmd.built # "Some" \/ opened_process = NoProcess))
       => /\ lastCmd'.outcome = "ok"
          /\ opened_process' = proc.pid
          /\ scan_value_type' = kind
          /\ last_scan'[kind] = scan_regions(kind, Scannable(proc.regions), lastCmd'.scan,
                                             target_mem, lastCmd'.failed)]_vars

====
